---------------------------- MODULE Spec2Model ----------------------------
(***************************************************************************)
(* TradeMaxer: the Trading Engine (order / risk / portfolio state machine) *)
(* and the named-pipe Channel Transport that feeds it signals.             *)
(*                                                                         *)
(* Units.  The source computes in IEEE doubles; the model computes in      *)
(* integers:                                                               *)
(*   quantity  in units of 0.01 BTC      (0.05 BTC is 5)                   *)
(*   price     in units of 100 $ per BTC (100000.0 is 1000)                *)
(*   money     in $, so that notional = quantity * price as in the source  *)
(*   fractions (drawdown, stop loss, take profit, confidence) in percent   *)
(* A product of a rate and a price is rounded to the nearest unit          *)
(* (RoundDiv); a comparison of a quotient with a fraction is made by       *)
(* cross-multiplication, which is exact.                                   *)
(***************************************************************************)
EXTENDS Integers, Sequences, FiniteSets, TLC

VARIABLES
    (* ---- TradingEngine (src/src/main.cpp 457-533) ---- *)
    mode,               \* TradingMode: "PAPER" or "LIVE"
    cash_balance,       \* portfolio.cash_balance
    positions,          \* portfolio.positions : symbol -> Position
    peak_balance,
    max_position_size,
    max_drawdown,       \* percent
    order_counter,
    pending_orders,     \* order id -> Order
    filled_orders,      \* order id -> Order
    crashed,            \* the process was killed: undefined behaviour, or SIGPIPE
    last,               \* the last Engine call: its name and the id it returned
    (* ---- IPCManager (src/src/ipc/ipc_manager.h 37-49) ---- *)
    running,            \* std::atomic<bool> running
    read_fd,            \* "closed" (-1) or "open"
    reader_joinable,    \* reader_thread.joinable()
    message_queue,      \* std::queue<std::string>
    message_callback,   \* whether a callback is registered
    rpc,                \* where the reader thread is in readerLoop
    message,            \* readerLoop's local string: what is left of the last read
    msg,                \* readerLoop's local msg while the callback runs
    cpc,                \* where the thread that calls start/stop/receiveMessage is
    (* ---- the inbound FIFO and the peer that writes it ---- *)
    in_pipe,            \* bytes written and not yet read
    peer,               \* the peer's write end: "idle", "opening" or "open"
    sent,               \* the payloads the peer has written, in write order
    (* ---- what the Transport has handed over ---- *)
    callback_log,       \* the messages the callback was invoked with, in order
    received,           \* the messages receiveMessage has returned, in order
    (* ---- TradingSystemApp (src/src/main_new.cpp) ---- *)
    apc,                \* where the main thread is in initialize/run/shutdown
    app_running,        \* the global std::atomic<bool> running
    python,             \* the analyzer process as PythonProcessManager holds it:
                        \* "none" (running false), "alive", "exited" (not
                        \* yet waited for) or "reaped" (waited for, running
                        \* still true)
    trading_engine,     \* whether trading_engine has been constructed
    reader_call,        \* the Engine as read by the call the reader thread is in
    control_call,       \* the Engine as read by the call the main thread is in
    (* ---- IPCManager, the outbound side (src/src/ipc/ipc_manager.h 37-41) ---- *)
    connected,          \* std::atomic<bool> connected
    write_fd,           \* 0 (-1) or the FIFO that the descriptor is open on
    write_nonblock,     \* whether write_fd was opened with O_NONBLOCK
    spc,                \* where the thread that calls sendMessage is
    ipc_ret,            \* the last call of the Transport or of the
                        \* PythonProcessManager and what it returned
    (* ---- the outbound FIFO and the peer that reads it ---- *)
    write_pipe,         \* 0 (no file) or the FIFO at pipe_name + "_to_python"
    read_pipe,          \* whether a FIFO is at pipe_name + "_to_cpp"
    fifos,              \* how many FIFOs mkfifo has made at the outbound path
    out_reader,         \* 0 or the FIFO the peer holds open for reading
    out_level,          \* messages written to the open FIFO and not yet read
    (* ---- DatabaseManager behind the Engine (src/unnamed/part_006) ---- *)
    db_manager,         \* whether the Engine's db_manager is set
    db,                 \* the rows of the positions and of the orders table
    db_fails            \* the store operations that sqlite rejects at present

engineVars == <<mode, cash_balance, positions, peak_balance,
                max_position_size, max_drawdown, order_counter,
                pending_orders, filled_orders, crashed, last>>

ipcVars == <<running, read_fd, reader_joinable, message_queue, message_callback,
             rpc, message, msg, cpc, in_pipe, peer, sent, callback_log,
             received>>

appVars == <<apc, app_running, python, trading_engine, reader_call,
             control_call>>

sendVars == <<connected, write_fd, write_nonblock, spc, ipc_ret, write_pipe,
              read_pipe, fifos, out_reader, out_level>>

storeVars == <<db_manager, db, db_fails>>

vars == <<engineVars, ipcVars, appVars, sendVars, storeVars>>

(* ------------------------------ bounds --------------------------------- *)
\* Top-level order placements (placeOrder, processTradingSignal) in a run.
MaxOrders == 2
\* Messages the peer writes in a run.
MaxMessages == 2
\* read(read_fd, buffer, sizeof(buffer) - 1) returns at most this many bytes:
\* 4095 in the source, a few bytes here, where a message is a few bytes long.
ReadChunk == 3
\* Calls of receiveMessage that time out in a run.
MaxTimeouts == 1
\* The FIFOs that createNamedPipe makes at the outbound path in a run.
MaxFifos == 2
\* The messages the outbound FIFO holds before a write finds it full.
PipeCapacity == 1

(* --------------------------- program constants ------------------------- *)
InitialBalance == 10000          \* initial_balance = 10000.0
DefaultMaxPositionSize == 5000   \* max_position_size(5000.0)
DefaultMaxDrawdown == 20         \* max_drawdown(0.20), percent
StopLossPercentage == 2          \* stop_loss_percentage(0.02)
TakeProfitPercentage == 5        \* take_profit_percentage(0.05)
DefaultFillPrice == 1000         \* 100000.0, the price used when none is given
AssumedPrice == 1000             \* 100000.0, processTradingSignal's assumed price
ReservePercent == 95             \* available_capital * 0.95

(* ------------------------------ inputs --------------------------------- *)
Symbols == {"BTC", "ETH"}
Sides == {"BUY", "SELL"}
OrderTypes == {"MARKET", "LIMIT"}
Modes == {"PAPER", "LIVE"}
Quantities == {0, 5}
Prices == {1000}
MarketPrices == {970, 1060}
NoOrder == 0                     \* the empty order id ""

(* ------------------------------ helpers -------------------------------- *)
\* n/d rounded to the nearest integer (d > 0), halves away from zero.
RoundDiv(n, d) ==
    IF n >= 0 THEN (2 * n + d) \div (2 * d)
    ELSE -((2 * (-n) + d) \div (2 * d))

Min(a, b) == IF a <= b THEN a ELSE b

RECURSIVE SumOver(_, _)
SumOver(f, S) ==
    IF S = {} THEN 0
    ELSE LET x == CHOOSE y \in S : TRUE
         IN f[x] + SumOver(f, S \ {x})

\* The engine's fields as one value, so that a call can be composed of calls.
Engine ==
    [mode |-> mode, cash_balance |-> cash_balance,
     positions |-> positions, peak_balance |-> peak_balance,
     max_position_size |-> max_position_size, max_drawdown |-> max_drawdown,
     order_counter |-> order_counter, pending_orders |-> pending_orders,
     filled_orders |-> filled_orders, crashed |-> crashed,
     db_manager |-> db_manager, db |-> db, db_fails |-> db_fails]

SetEngine(e) ==
    /\ mode' = e.mode
    /\ cash_balance' = e.cash_balance
    /\ positions' = e.positions
    /\ peak_balance' = e.peak_balance
    /\ max_position_size' = e.max_position_size
    /\ max_drawdown' = e.max_drawdown
    /\ order_counter' = e.order_counter
    /\ pending_orders' = e.pending_orders
    /\ filled_orders' = e.filled_orders
    /\ crashed' = e.crashed

\* std::map insert-or-assign and erase.
MapPut(m, k, v) == [x \in DOMAIN m \cup {k} |-> IF x = k THEN v ELSE m[x]]
MapErase(m, k) == [x \in DOMAIN m \ {k} |-> m[x]]
EmptyMap == [x \in {} |-> 0]

(* --------------------------- Portfolio --------------------------------- *)
\* Portfolio::getEquity
getEquity(e) ==
    e.cash_balance
    + SumOver([s \in DOMAIN e.positions |->
                  e.positions[s].quantity * e.positions[s].current_price],
              DOMAIN e.positions)

(* ----------------------- PaperTradingSimulator ------------------------- *)
\* slippage = price * 0.001 * (1.0 + quantity / 100.0), quantity in BTC
simulateSlippage(price, quantity, side) ==
    LET slippage == RoundDiv(price * (10000 + quantity), 10000000)
    IN IF side = "BUY" THEN price + slippage ELSE price - slippage

\* price * (1.0 + 0.0005)
simulateSpread(price) == price + RoundDiv(price * 5, 10000)


(* -------------------------- DatabaseManager ---------------------------- *)
\* The calls of the Engine into the store are made only with db_manager set
\* (if (db_manager)); a call that sqlite rejects returns false and writes
\* nothing, and the Engine does not look at what the call returns.
\* INSERT INTO orders: order_id is UNIQUE.
insertOrder(e, order) ==
    IF /\ e.db_manager
       /\ "insertOrder" \notin e.db_fails
       /\ order.order_id \notin DOMAIN e.db.orders
    THEN [e EXCEPT !.db.orders = MapPut(@, order.order_id, order.status)]
    ELSE e

\* UPDATE orders SET status = ... WHERE order_id = ...
updateOrderStatus(e, order_id, status) ==
    IF /\ e.db_manager
       /\ "updateOrderStatus" \notin e.db_fails
       /\ order_id \in DOMAIN e.db.orders
    THEN [e EXCEPT !.db.orders = MapPut(@, order_id, status)]
    ELSE e

\* Mutant of insertPosition: a rejected insert takes the position out of the
\* Portfolio again.
insertPositionRollsBack(e, symbol, pos) ==
    IF e.db_manager /\ "insertPosition" \notin e.db_fails
    THEN [e EXCEPT !.db.positions =
             Append(@, [symbol |-> symbol, position |-> pos])]
    ELSE [e EXCEPT !.positions = MapErase(@, symbol)]

\* INSERT INTO positions: a new row, whose status defaults to 'OPEN'.
insertPosition(e, symbol, pos) ==
    IF e.db_manager /\ "insertPosition" \notin e.db_fails
    THEN [e EXCEPT !.db.positions =
             Append(@, [symbol |-> symbol, position |-> pos])]
    ELSE e

\* updatePosition is declared and not defined: as the specification has it,
\* the rows of the symbol take the values of the position.
updatePosition(e, symbol, pos) ==
    IF e.db_manager /\ "updatePosition" \notin e.db_fails
    THEN LET rows == e.db.positions
         IN [e EXCEPT !.db.positions =
                [i \in 1..Len(rows) |->
                   IF rows[i].symbol = symbol
                   THEN [rows[i] EXCEPT !.position = pos]
                   ELSE rows[i]]]
    ELSE e

\* SELECT ... FROM positions WHERE status = 'OPEN', in the order of the rows.
getOpenPositions(store) == store.positions

(* --------------------------- TradingEngine ----------------------------- *)
\* initialize(db_manager): the open positions of the store are copied into
\* the Portfolio row by row, a later row of a symbol over an earlier one.
RECURSIVE loadPositions(_, _)
loadPositions(held, rows) ==
    IF rows = << >> THEN held
    ELSE loadPositions(MapPut(held, Head(rows).symbol, Head(rows).position),
                       Tail(rows))

initialize(e) ==
    [e EXCEPT !.db_manager = TRUE,
              !.positions = loadPositions(e.positions, getOpenPositions(e.db))]

\* (peak_balance - equity) / peak_balance > max_drawdown, peak_balance > 0
drawdownExceeded(e) ==
    (e.peak_balance - getEquity(e)) * 100 > e.max_drawdown * e.peak_balance

\* Mutant of checkRiskLimits: an order exactly at the position limit is rejected.
checkRiskLimitsAtLimitRejects(e, symbol, quantity, price) ==
    LET position_value == quantity * price
    IN IF position_value >= e.max_position_size THEN FALSE
       ELSE IF position_value > e.cash_balance THEN FALSE
       ELSE IF drawdownExceeded(e) THEN FALSE
       ELSE TRUE

checkRiskLimits(e, symbol, quantity, price) ==
    LET position_value == quantity * price
    IN IF position_value > e.max_position_size THEN FALSE
       ELSE IF position_value > e.cash_balance THEN FALSE
       ELSE IF drawdownExceeded(e) THEN FALSE
       ELSE TRUE

\* Mutant of updatePortfolioBuy: the position is opened but the cash is not
\* charged.
updatePortfolioBuyUncharged(e, order) ==
    [e EXCEPT !.positions =
        MapPut(e.positions, order.symbol,
               [quantity |-> order.quantity, entry_price |-> order.price,
                current_price |-> order.price, unrealized_pnl |-> 0])]

\* Mutant of updatePortfolioBuy: a merge takes the price of the last fill as
\* the entry price.
updatePortfolioBuyLastPrice(e, order) ==
    LET qty == IF order.symbol \in DOMAIN e.positions
               THEN e.positions[order.symbol].quantity + order.quantity
               ELSE order.quantity
    IN [e EXCEPT !.cash_balance = e.cash_balance - order.quantity * order.price,
                 !.positions =
                     MapPut(e.positions, order.symbol,
                            [quantity |-> qty, entry_price |-> order.price,
                             current_price |-> order.price,
                             unrealized_pnl |-> 0])]

\* The BUY branch of updatePortfolio.
updatePortfolioBuy(e, order) ==
    LET cash == e.cash_balance - order.quantity * order.price
    IN IF order.symbol \in DOMAIN e.positions
       THEN LET pos == e.positions[order.symbol]
                total_cost == pos.quantity * pos.entry_price
                              + order.quantity * order.price
                qty == pos.quantity + order.quantity
                merged == [pos EXCEPT !.quantity = qty,
                                      !.entry_price = RoundDiv(total_cost, qty),
                                      !.current_price = order.price]
            IN [e EXCEPT !.cash_balance = cash,
                         !.positions = MapPut(e.positions, order.symbol, merged)]
       ELSE LET pos == [quantity |-> order.quantity,
                        entry_price |-> order.price,
                        current_price |-> order.price,
                        unrealized_pnl |-> 0]
            IN insertPosition(
                   [e EXCEPT !.cash_balance = cash,
                             !.positions = MapPut(e.positions, order.symbol, pos)],
                   order.symbol, pos)

\* Mutant of updatePortfolioSell: the peak is set to the equity after every
\* SELL fill, whether the equity is above the peak or not.
updatePortfolioSellResetsPeak(e, order) ==
    IF order.symbol \in DOMAIN e.positions
    THEN LET pos == e.positions[order.symbol]
             qty == pos.quantity - order.quantity
             e1 == [e EXCEPT
                      !.cash_balance = e.cash_balance + order.quantity * order.price,
                      !.positions =
                          IF qty <= 0 THEN MapErase(e.positions, order.symbol)
                          ELSE MapPut(e.positions, order.symbol,
                                      [pos EXCEPT !.quantity = qty])]
         IN [e1 EXCEPT !.peak_balance = getEquity(e1)]
    ELSE e

\* The SELL branch of updatePortfolio.
updatePortfolioSell(e, order) ==
    IF order.symbol \in DOMAIN e.positions
    THEN LET pos == e.positions[order.symbol]
             qty == pos.quantity - order.quantity
             e1 == [e EXCEPT
                      !.cash_balance = e.cash_balance + order.quantity * order.price,
                      !.positions =
                          IF qty <= 0 THEN MapErase(e.positions, order.symbol)
                          ELSE MapPut(e.positions, order.symbol,
                                      [pos EXCEPT !.quantity = qty])]
             current_equity == getEquity(e1)
         IN IF current_equity > e1.peak_balance
            THEN [e1 EXCEPT !.peak_balance = current_equity]
            ELSE e1
    ELSE e

updatePortfolio(e, order) ==
    IF order.side = "BUY" THEN updatePortfolioBuy(e, order)
    ELSE IF order.side = "SELL" THEN updatePortfolioSell(e, order)
    ELSE e

\* Mutant of executeMarketOrder: the filled order is not erased from the
\* pending table.
executeMarketOrderKeepsPending(e, order, market_price) ==
    LET filled == [order EXCEPT !.price = market_price, !.status = "FILLED"]
        e1 == updatePortfolio(e, filled)
    IN [e1 EXCEPT !.filled_orders = MapPut(e1.filled_orders, filled.order_id, filled)]

executeMarketOrder(e, order, market_price) ==
    LET filled == [order EXCEPT !.price = market_price, !.status = "FILLED"]
        e1 == updatePortfolio(e, filled)
    IN updateOrderStatus(
           [e1 EXCEPT
               !.pending_orders = MapErase(e1.pending_orders, filled.order_id),
               !.filled_orders = MapPut(e1.filled_orders, filled.order_id, filled)],
           filled.order_id, "FILLED")

\* simulateFill for a MARKET order: slippage, then spread, then the fill.
simulateFill(e, order, market_price) ==
    LET fill_price ==
            simulateSpread(simulateSlippage(market_price, order.quantity, order.side))
    IN IF order.order_type = "MARKET"
       THEN executeMarketOrder(e, order, fill_price)
       ELSE e

\* Mutant of fillsOnPlacement: the trading mode is not looked at.
fillsOnPlacementInAnyMode(e, order_type) ==
    order_type = "MARKET"

\* Whether placeOrder fills the order it has stored before it returns.
fillsOnPlacement(e, order_type) ==
    e.mode = "PAPER" /\ order_type = "MARKET"

\* placeOrder after both checks have passed: create, store, maybe fill.
acceptOrder(e, symbol, side, quantity, order_type, price) ==
    LET id == e.order_counter + 1
        order == [order_id |-> id, symbol |-> symbol, side |-> side,
                  quantity |-> quantity, price |-> price,
                  order_type |-> order_type, status |-> "PENDING"]
        e1 == insertOrder(
                  [e EXCEPT !.order_counter = id,
                            !.pending_orders = MapPut(e.pending_orders, id, order)],
                  order)
    IN [e |-> IF fillsOnPlacement(e1, order_type)
              THEN simulateFill(e1, order,
                                IF price > 0 THEN price ELSE DefaultFillPrice)
              ELSE e1,
        ret |-> id]

\* Mutant of placeOrder: the order is stored before the risk check.
placeOrderStoredBeforeCheck(e, symbol, side, quantity, order_type, price) ==
    IF quantity <= 0 THEN [e |-> e, ret |-> NoOrder]
    ELSE IF ~checkRiskLimits(e, symbol, quantity, price)
    THEN [e |-> [acceptOrder(e, symbol, side, quantity, "LIMIT", price).e
                    EXCEPT !.order_counter = e.order_counter],
          ret |-> NoOrder]
    ELSE acceptOrder(e, symbol, side, quantity, order_type, price)

placeOrder(e, symbol, side, quantity, order_type, price) ==
    IF quantity <= 0 THEN [e |-> e, ret |-> NoOrder]
    ELSE IF ~checkRiskLimits(e, symbol, quantity, price)
    THEN [e |-> e, ret |-> NoOrder]
    ELSE acceptOrder(e, symbol, side, quantity, order_type, price)


\* Mutant of calculatePositionSize: the maximum position size is not applied.
calculatePositionSizeUncapped(e, signal) ==
    Min(RoundDiv(signal.suggested_position_size * signal.confidence, 100),
        RoundDiv(e.cash_balance * ReservePercent, 100))

\* min(min(suggested_position_size * confidence, cash * 0.95), max_position_size)
calculatePositionSize(e, signal) ==
    LET available_capital == e.cash_balance
        adjusted_size == RoundDiv(signal.suggested_position_size * signal.confidence, 100)
        reserved == Min(adjusted_size, RoundDiv(available_capital * ReservePercent, 100))
    IN Min(reserved, e.max_position_size)

\* Mutant of hasPosition: no symbol is taken to be held.
hasPositionNever(e, symbol) ==
    FALSE

\* has_position: the symbol is held and its quantity is positive.
hasPosition(e, symbol) ==
    symbol \in DOMAIN e.positions /\ e.positions[symbol].quantity > 0

\* quantity = position_size / 100000.0
signalQuantity(position_size) == RoundDiv(position_size, AssumedPrice)

processTradingSignal(e, signal) ==
    LET position_size == calculatePositionSize(e, signal)
        has_position == hasPosition(e, signal.symbol)
    IN IF position_size <= 0 THEN [e |-> e, ret |-> NoOrder]
       ELSE IF signal.action = "BUY" /\ ~has_position
       THEN placeOrder(e, signal.symbol, "BUY", signalQuantity(position_size),
                       "MARKET", 0)
       ELSE IF signal.action = "SELL" /\ has_position
       THEN placeOrder(e, signal.symbol, "SELL",
                       e.positions[signal.symbol].quantity, "MARKET", 0)
       ELSE [e |-> e, ret |-> NoOrder]

\* (entry_price - current_price) / entry_price >= stop_loss_percentage
stopLossTriggered(position, current_price) ==
    (position.entry_price - current_price) * 100
        >= StopLossPercentage * position.entry_price

\* (current_price - entry_price) / entry_price >= take_profit_percentage
takeProfitTriggered(position, current_price) ==
    (current_price - position.entry_price) * 100
        >= TakeProfitPercentage * position.entry_price

applyStopLoss(e, symbol, position, current_price) ==
    IF stopLossTriggered(position, current_price)
    THEN placeOrder(e, symbol, "SELL", position.quantity, "MARKET", current_price).e
    ELSE e

applyTakeProfit(e, symbol, position, current_price) ==
    IF takeProfitTriggered(position, current_price)
    THEN placeOrder(e, symbol, "SELL", position.quantity, "MARKET", current_price).e
    ELSE e

\* std::map iterates its keys in increasing order; "" is the symbol of a signal
\* whose text names none.
SymbolOrder == <<"", "BTC", "ETH">>

\* What the build does once the loop of updatePositionPrices holds a reference
\* and an iterator to a map node that a triggered SELL has erased: the freed
\* node still reads as before and the iterator reaches the next key
\* ("continue"), the iterator reaches end() ("stop"), or the process dies
\* ("crash").
UBOutcomes == {"continue", "stop", "crash"}

\* The body of the loop of updatePositionPrices for one held symbol with a
\* price: the position as repriced, then stop loss, then take profit (which
\* reads the same Position object, stale if the stop-loss SELL erased it).
repriceOne(e, symbol, price) ==
    LET pos == [e.positions[symbol] EXCEPT
                   !.current_price = price,
                   !.unrealized_pnl =
                       e.positions[symbol].quantity
                       * (price - e.positions[symbol].entry_price)]
        e1 == [e EXCEPT !.positions = MapPut(e.positions, symbol, pos)]
        e2 == applyStopLoss(e1, symbol, pos, price)
        live == IF symbol \in DOMAIN e2.positions THEN e2.positions[symbol]
                ELSE [pos EXCEPT !.quantity = 0]
        e3 == applyTakeProfit(e2, symbol, live, price)
    IN updatePosition(e3, symbol,
                      IF symbol \in DOMAIN e3.positions THEN e3.positions[symbol]
                      ELSE [pos EXCEPT !.quantity = 0])

\* The loop of updatePositionPrices from the i-th key on; ub[symbol] is the
\* outcome of the undefined behaviour when symbol's node is erased under the
\* loop.
RECURSIVE repriceFrom(_, _, _, _)
repriceFrom(e, i, current_prices, ub) ==
    IF i > Len(SymbolOrder) THEN e
    ELSE LET symbol == SymbolOrder[i]
         IN IF symbol \notin DOMAIN e.positions
            THEN repriceFrom(e, i + 1, current_prices, ub)
            ELSE IF symbol \notin DOMAIN current_prices
            THEN repriceFrom(e, i + 1, current_prices, ub)
            ELSE LET e1 == repriceOne(e, symbol, current_prices[symbol])
                 IN IF symbol \in DOMAIN e1.positions
                    THEN repriceFrom(e1, i + 1, current_prices, ub)
                    ELSE IF ub[symbol] = "continue"
                    THEN repriceFrom(e1, i + 1, current_prices, ub)
                    ELSE IF ub[symbol] = "stop" THEN e1
                    ELSE [e1 EXCEPT !.crashed = TRUE]

\* Mutant of updatePositionPrices: a held symbol without a price in the map
\* is marked back at its entry price.
updatePositionPricesResetsUnpriced(e, current_prices, ub) ==
    LET e1 == repriceFrom(e, 1, current_prices, ub)
    IN [e1 EXCEPT !.positions =
          [s \in DOMAIN e1.positions |->
             IF s \in DOMAIN current_prices THEN e1.positions[s]
             ELSE [e1.positions[s] EXCEPT
                      !.current_price = e1.positions[s].entry_price,
                      !.unrealized_pnl = 0]]]

updatePositionPrices(e, current_prices, ub) ==
    repriceFrom(e, 1, current_prices, ub)


(* ------------------------- Engine: the calls --------------------------- *)
Signals ==
    [symbol : Symbols, action : {"BUY", "SELL", "HOLD"},
     confidence : {0, 100}, suggested_position_size : {6000}]

\* std::map<std::string, double>: a price for some of the symbols.
PriceMaps ==
    UNION {[S -> MarketPrices] : S \in SUBSET Symbols}

MaxPositionSizes == {DefaultMaxPositionSize, 4000}
MaxDrawdowns == {DefaultMaxDrawdown, 1}

\* No rows in the positions table, none in the orders table.
EmptyStore == [positions |-> << >>, orders |-> EmptyMap]

\* A TradingEngine before initialize(db_manager): no store behind it.  The
\* rows of the store are followed in SpecStore, where initialize sets
\* db_manager; the other specifications leave the store aside.
StoreInit ==
    /\ db_manager = FALSE
    /\ db = EmptyStore
    /\ db_fails = {}

EngineInit ==
    /\ StoreInit
    /\ mode \in Modes
    /\ cash_balance = InitialBalance
    /\ positions = EmptyMap
    /\ peak_balance = InitialBalance
    /\ max_position_size = DefaultMaxPositionSize
    /\ max_drawdown = DefaultMaxDrawdown
    /\ order_counter = 0
    /\ pending_orders = EmptyMap
    /\ filled_orders = EmptyMap
    /\ crashed = FALSE
    /\ last = [op |-> "init", ret |-> NoOrder]

PlaceOrder(symbol, side, quantity, order_type, price) ==
    /\ ~crashed
    /\ order_counter < MaxOrders
    /\ LET r == placeOrder(Engine, symbol, side, quantity, order_type, price)
       IN /\ SetEngine(r.e)
          /\ last' = [op |-> "placeOrder", ret |-> r.ret]

ProcessTradingSignal(signal) ==
    /\ ~crashed
    /\ order_counter < MaxOrders
    /\ LET r == processTradingSignal(Engine, signal)
       IN /\ SetEngine(r.e)
          /\ last' = [op |-> "processTradingSignal", ret |-> r.ret]

UpdatePositionPrices(current_prices, ub) ==
    /\ ~crashed
    /\ SetEngine(updatePositionPrices(Engine, current_prices, ub))
    /\ last' = [op |-> "updatePositionPrices", ret |-> NoOrder]

SetMaxPositionSize(max_size) ==
    /\ ~crashed
    /\ max_position_size' = max_size
    /\ last' = [op |-> "setMaxPositionSize", ret |-> NoOrder]
    /\ UNCHANGED <<mode, cash_balance, positions, peak_balance,
                   max_drawdown, order_counter, pending_orders, filled_orders,
                   crashed>>

SetMaxDrawdown(max_dd) ==
    /\ ~crashed
    /\ max_drawdown' = max_dd
    /\ last' = [op |-> "setMaxDrawdown", ret |-> NoOrder]
    /\ UNCHANGED <<mode, cash_balance, positions, peak_balance,
                   max_position_size, order_counter, pending_orders,
                   filled_orders, crashed>>


(* ======================= IPCManager: the Transport ===================== *)
\* The byte stream is modelled in tokens: a token is a run of bytes of a
\* message, or the newline that ends it.
NL == "\n"
StatusText == "{\"status\":\"ready\"}"
SignalHead == "{\"symbol\":\"BTC\",\"confidence\":1.0,\"suggested_position_size\":6000,"
SignalTail == "\"action\":\"BUY\"}"
Padding == " "
ErrorText == "\"error\""

\* The payloads the peer writes: no embedded newline, the empty one included,
\* and one that with its newline is longer than one read.
Payloads ==
    {<< >>, <<StatusText>>, <<SignalHead, SignalTail>>,
     <<SignalHead, SignalTail, Padding>>}

\* Token c of the k-th write; the tag k is history, the code reads c alone.
Byte(c, k) == [c |-> c, m |-> k]
Tagged(payload, k) == [i \in 1..Len(payload) |-> Byte(payload[i], k)]
Chars(bytes) == [i \in 1..Len(bytes) |-> bytes[i].c]

\* sendMessage's framing: message + "\n", handed to one write.
frame(payload, k) == Tagged(payload \o <<NL>>, k)

\* message.find('\n'): the index of the first newline, 0 for npos.
findNewline(bytes) ==
    IF \E i \in 1..Len(bytes) : bytes[i].c = NL
    THEN CHOOSE i \in 1..Len(bytes) :
            /\ bytes[i].c = NL
            /\ \A j \in 1..(i - 1) : bytes[j].c # NL
    ELSE 0

\* Mutant of enqueue: the message goes to the front of the queue.
enqueueAtFront(queue, m) == <<m>> \o queue

\* message_queue.push(msg)
enqueue(queue, m) == Append(queue, m)

\* Mutant of joinReturns: stop() does not wait for the reader thread.
joinReturnsAtOnce == TRUE

\* reader_thread.join() returns once readerLoop has returned.
joinReturns == rpc = "exited"

\* IPCManager::IPCManager on the outbound side: not connected, no descriptor,
\* no FIFO made and no peer.
SendInit ==
    /\ connected = FALSE
    /\ write_fd = 0
    /\ write_nonblock = FALSE
    /\ spc = "idle"
    /\ ipc_ret = [op |-> "none", ret |-> FALSE, err |-> "none"]
    /\ write_pipe = 0
    /\ read_pipe = FALSE
    /\ fifos = 0
    /\ out_reader = 0
    /\ out_level = 0

IPCInit ==
    /\ SendInit
    /\ running = FALSE
    /\ read_fd = "closed"
    /\ reader_joinable = FALSE
    /\ message_queue = << >>
    /\ message_callback \in BOOLEAN
    /\ rpc = "none"
    /\ message = << >>
    /\ msg = << >>
    /\ cpc = "idle"
    /\ in_pipe = << >>
    /\ peer = "idle"
    /\ sent = << >>
    /\ callback_log = << >>
    /\ received = << >>

(* ---- the calling thread ---- *)
\* start(): nothing if running, else running = true and the reader thread.
Start ==
    /\ cpc = "idle"
    /\ IF running
       THEN UNCHANGED <<running, rpc, reader_joinable>>
       ELSE /\ running' = TRUE
            /\ rpc' = "loop"
            /\ reader_joinable' = TRUE
    /\ UNCHANGED <<read_fd, message_queue, message_callback, message, msg, cpc,
                   in_pipe, peer, sent, callback_log, received>>

\* stop() up to the join: running = false; without a joinable thread it returns.
StopBegin ==
    /\ cpc = "idle"
    /\ running' = FALSE
    /\ cpc' = IF reader_joinable THEN "joining" ELSE "idle"
    /\ UNCHANGED <<read_fd, reader_joinable, message_queue, message_callback,
                   rpc, message, msg, in_pipe, peer, sent, callback_log,
                   received>>

\* stop() from the join on: it returns when the reader thread has finished.
StopJoin ==
    /\ cpc = "joining"
    /\ joinReturns
    /\ reader_joinable' = FALSE
    /\ cpc' = "idle"
    /\ UNCHANGED <<running, read_fd, message_queue, message_callback, rpc,
                   message, msg, in_pipe, peer, sent, callback_log, received>>

\* Mutant of ReceiveMessage: the newest message is returned and removed.
ReceiveMessageNewest ==
    /\ cpc = "idle"
    /\ message_queue # << >>
    /\ received' = Append(received, message_queue[Len(message_queue)])
    /\ message_queue' = SubSeq(message_queue, 1, Len(message_queue) - 1)
    /\ UNCHANGED <<running, read_fd, reader_joinable, message_callback, rpc,
                   message, msg, cpc, in_pipe, peer, sent, callback_log>>

\* receiveMessage(timeout) with a message queued: the front is popped and returned.
ReceiveMessage ==
    /\ cpc = "idle"
    /\ message_queue # << >>
    /\ received' = Append(received, Head(message_queue))
    /\ message_queue' = Tail(message_queue)
    /\ UNCHANGED <<running, read_fd, reader_joinable, message_callback, rpc,
                   message, msg, cpc, in_pipe, peer, sent, callback_log>>

(* ---- the reader thread: readerLoop ---- *)
\* while (running): on to the open or the read, or out of the loop, where the
\* descriptor is closed and the thread ends.
ReaderLoopHead ==
    /\ rpc = "loop"
    /\ IF running
       THEN /\ rpc' = IF read_fd = "closed" THEN "open" ELSE "read"
            /\ UNCHANGED read_fd
       ELSE /\ rpc' = "exited"
            /\ read_fd' = "closed"
    /\ UNCHANGED <<running, reader_joinable, message_queue, message_callback,
                   message, msg, cpc, in_pipe, peer, sent, callback_log,
                   received>>

\* open(read_pipe, O_RDONLY) returns when the FIFO has a writer, and with it
\* the open of a peer that was waiting for a reader.
ReaderOpen ==
    /\ rpc = "open"
    /\ peer \in {"opening", "open"}
    /\ read_fd' = "open"
    /\ peer' = "open"
    /\ rpc' = "read"
    /\ UNCHANGED <<running, reader_joinable, message_queue, message_callback,
                   message, msg, cpc, in_pipe, sent, callback_log, received>>

\* read() with bytes in the pipe: as many as there are, ReadChunk at most.
ReaderRead ==
    /\ rpc = "read"
    /\ in_pipe # << >>
    /\ LET n == Min(Len(in_pipe), ReadChunk)
       IN /\ message' = SubSeq(in_pipe, 1, n)
          /\ in_pipe' = SubSeq(in_pipe, n + 1, Len(in_pipe))
    /\ rpc' = "split"
    /\ UNCHANGED <<running, read_fd, reader_joinable, message_queue,
                   message_callback, msg, cpc, peer, sent, callback_log,
                   received>>

\* read() returns 0: no byte and no writer.  close, read_fd = -1, sleep.
ReaderEof ==
    /\ rpc = "read"
    /\ in_pipe = << >>
    /\ peer # "open"
    /\ read_fd' = "closed"
    /\ rpc' = "loop"
    /\ UNCHANGED <<running, reader_joinable, message_queue, message_callback,
                   message, msg, cpc, in_pipe, peer, sent, callback_log,
                   received>>

\* One turn of the split loop: the text before the first newline is erased
\* with its newline and, unless empty, pushed on the queue; with a callback
\* registered the callback is next.  Without a newline the loop ends and what
\* is left is dropped with the local string.
ReaderSplit ==
    /\ rpc = "split"
    /\ LET pos == findNewline(message)
       IN IF pos = 0
          THEN /\ message' = << >>
               /\ rpc' = "loop"
               /\ UNCHANGED <<message_queue, msg>>
          ELSE LET m == SubSeq(message, 1, pos - 1)
               IN /\ message' = SubSeq(message, pos + 1, Len(message))
                  /\ IF m # << >>
                     THEN /\ message_queue' = enqueue(message_queue, m)
                          /\ IF message_callback
                             THEN rpc' = "callback" /\ msg' = m
                             ELSE rpc' = "split" /\ UNCHANGED msg
                     ELSE rpc' = "split" /\ UNCHANGED <<message_queue, msg>>
    /\ UNCHANGED <<running, read_fd, reader_joinable, message_callback, cpc,
                   in_pipe, peer, sent, callback_log, received>>

\* message_callback(msg), the callback being any function that returns.
ReaderCallback ==
    /\ rpc = "callback"
    /\ callback_log' = Append(callback_log, msg)
    /\ msg' = << >>
    /\ rpc' = "split"
    /\ UNCHANGED <<running, read_fd, reader_joinable, message_queue,
                   message_callback, message, cpc, in_pipe, peer, sent,
                   received>>

(* ---- the peer ---- *)
\* The peer calls open(O_WRONLY) on the FIFO; the call returns once the FIFO
\* has a reader (at once, or with the reader's own open in ReaderOpen).
PeerOpen ==
    /\ peer = "idle"
    /\ peer' = IF read_fd = "open" THEN "open" ELSE "opening"
    /\ UNCHANGED <<running, read_fd, reader_joinable, message_queue,
                   message_callback, rpc, message, msg, cpc, in_pipe, sent,
                   callback_log, received>>

\* The peer writes one framed message in one write.
PeerWrite(payload) ==
    /\ peer = "open"
    /\ read_fd = "open"
    /\ Len(sent) < MaxMessages
    /\ sent' = Append(sent, payload)
    /\ in_pipe' = in_pipe \o frame(payload, Len(sent) + 1)
    /\ UNCHANGED <<running, read_fd, reader_joinable, message_queue,
                   message_callback, rpc, message, msg, cpc, peer,
                   callback_log, received>>

\* The peer closes its write end (or gives up opening it).
PeerClose ==
    /\ peer \in {"opening", "open"}
    /\ peer' = "idle"
    /\ UNCHANGED <<running, read_fd, reader_joinable, message_queue,
                   message_callback, rpc, message, msg, cpc, in_pipe, sent,
                   callback_log, received>>

ControlStep == Start \/ StopBegin \/ StopJoin \/ ReceiveMessage
ReaderStep ==
    \/ ReaderLoopHead \/ ReaderOpen \/ ReaderRead \/ ReaderEof
    \/ ReaderSplit \/ ReaderCallback

(* =========================== TradingSystemApp ========================== *)
\* text.find(token) != npos
contains(text, token) == \E i \in 1..Len(text) : text[i] = token

\* What an uninitialised double of a TradingSignal may hold.
JunkSignals == [confidence : {0, 100}, suggested_position_size : {6000}]

\* TradingSignal::fromJson: a field whose key is found is parsed, a string
\* whose key is not found is empty, a double whose key is not found is left
\* uninitialised.
fromJson(text, junk) ==
    [symbol |-> IF contains(text, SignalHead) THEN "BTC" ELSE "",
     confidence |-> IF contains(text, SignalHead) THEN 100 ELSE junk.confidence,
     action |-> IF contains(text, SignalTail) THEN "BUY" ELSE "",
     suggested_position_size |->
         IF contains(text, SignalHead) THEN 6000
         ELSE junk.suggested_position_size]

\* db_manager->getMarketData(symbol, 1) for the configured symbols.
AppPriceMaps == {p \in PriceMaps : DOMAIN p \subseteq {"BTC"}}

\* What a call into the Engine does when the other thread has written the
\* Engine since the call read it (a data race on unsynchronised fields): it
\* acts on what is there now, it acts on what it read, or the process dies.
RaceOutcomes == {"serial", "stale", "crash"}

raceOutcome(e0, serial, stale, race) ==
    IF Engine = e0 \/ race = "serial" THEN serial
    ELSE IF race = "stale" THEN stale
    ELSE [Engine EXCEPT !.crashed = TRUE]

AppInit ==
    /\ apc = "init"
    /\ app_running = TRUE
    /\ python = "none"
    /\ trading_engine = FALSE
    /\ reader_call = << >>
    /\ control_call = << >>

(* ---- the main thread ---- *)
\* signalHandler: running = false.
SignalHandler ==
    /\ ~crashed
    /\ app_running
    /\ apc # "done"
    /\ app_running' = FALSE
    /\ UNCHANGED <<engineVars, ipcVars, apc, python, trading_engine,
                   reader_call, control_call>>

\* initialize(): the callback is registered and the Transport started.
AppStartTransport ==
    /\ ~crashed
    /\ apc = "init"
    /\ Start
    /\ apc' = "start_python"
    /\ UNCHANGED <<engineVars, app_running, python, trading_engine,
                   reader_call, control_call>>

\* initialize(): python_manager->start() forks the analyzer.
AppStartPython ==
    /\ ~crashed
    /\ apc = "start_python"
    /\ python' = "alive"
    /\ apc' = "init_engine"
    /\ UNCHANGED <<engineVars, ipcVars, app_running, trading_engine,
                   reader_call, control_call>>

\* initialize(), two seconds later: the engine is constructed and configured.
AppInitEngine ==
    /\ ~crashed
    /\ apc = "init_engine"
    /\ trading_engine' = TRUE
    /\ max_position_size' = DefaultMaxPositionSize
    /\ max_drawdown' = DefaultMaxDrawdown
    /\ apc' = "run"
    /\ UNCHANGED <<mode, cash_balance, positions, peak_balance, order_counter,
                   pending_orders, filled_orders, crashed, last, ipcVars,
                   app_running, python, reader_call, control_call>>

\* run(): while (running) { ... updatePortfolio(); ... }: the loop is left, or
\* updatePositionPrices is entered.
AppLoop ==
    /\ ~crashed
    /\ apc = "run"
    /\ IF app_running
       THEN /\ control_call' = <<Engine>>
            /\ apc' = "in_update"
       ELSE /\ apc' = "shutdown_py"
            /\ UNCHANGED control_call
    /\ UNCHANGED <<engineVars, ipcVars, app_running, python, trading_engine,
                   reader_call>>

\* updatePositionPrices returns to the loop.
AppUpdatePortfolioReturn(current_prices, ub, race) ==
    /\ ~crashed
    /\ apc = "in_update"
    /\ SetEngine(raceOutcome(control_call[1],
                             updatePositionPrices(Engine, current_prices, ub),
                             updatePositionPrices(control_call[1], current_prices, ub),
                             race))
    /\ last' = [op |-> "updatePositionPrices", ret |-> NoOrder]
    /\ control_call' = << >>
    /\ apc' = "run"
    /\ UNCHANGED <<ipcVars, app_running, python, trading_engine, reader_call>>

\* shutdown(): python_manager->stop() up to waitpid: SIGTERM is sent.
AppStopPython ==
    /\ ~crashed
    /\ apc = "shutdown_py"
    /\ apc' = IF python = "none" THEN "shutdown_ipc" ELSE "waitpid"
    /\ UNCHANGED <<engineVars, ipcVars, app_running, python, trading_engine,
                   reader_call, control_call>>

\* waitpid(process_pid, &status, 0) returns once the analyzer has exited.
AppWaitpid ==
    /\ ~crashed
    /\ apc = "waitpid"
    /\ python = "exited"
    /\ python' = "none"
    /\ apc' = "shutdown_ipc"
    /\ UNCHANGED <<engineVars, ipcVars, app_running, trading_engine,
                   reader_call, control_call>>

\* shutdown(): ipc_manager->stop() up to the join.
AppStopTransport ==
    /\ ~crashed
    /\ apc = "shutdown_ipc"
    /\ StopBegin
    /\ apc' = IF reader_joinable THEN "shutdown_ipc" ELSE "log"
    /\ UNCHANGED <<engineVars, app_running, python, trading_engine,
                   reader_call, control_call>>

\* shutdown(): ipc_manager->stop() returns from the join.
AppJoinTransport ==
    /\ ~crashed
    /\ apc = "shutdown_ipc"
    /\ StopJoin
    /\ apc' = "log"
    /\ UNCHANGED <<engineVars, app_running, python, trading_engine,
                   reader_call, control_call>>

\* shutdown(): the final portfolio value and the total P&L are logged.
AppLogFinal ==
    /\ ~crashed
    /\ apc = "log"
    /\ apc' = "done"
    /\ UNCHANGED <<engineVars, ipcVars, app_running, python, trading_engine,
                   reader_call, control_call>>

(* ---- the reader thread in the callback ---- *)
\* handlePythonMessage up to the call of the engine: a message with an error
\* key or without an action key is done with; the call of processTradingSignal
\* through a null trading_engine kills the process.
HandlePythonMessage ==
    /\ ~crashed
    /\ rpc = "callback"
    /\ callback_log' = Append(callback_log, msg)
    /\ IF contains(Chars(msg), ErrorText) \/ ~contains(Chars(msg), SignalTail)
       THEN /\ rpc' = "split"
            /\ msg' = << >>
            /\ UNCHANGED <<crashed, reader_call>>
       ELSE IF ~trading_engine
       THEN /\ crashed' = TRUE
            /\ UNCHANGED <<rpc, msg, reader_call>>
       ELSE /\ rpc' = "in_signal"
            /\ reader_call' = <<Engine>>
            /\ UNCHANGED <<crashed, msg>>
    /\ UNCHANGED <<mode, cash_balance, positions, peak_balance,
                   max_position_size, max_drawdown, order_counter,
                   pending_orders, filled_orders, last,
                   running, read_fd, reader_joinable, message_queue,
                   message_callback, message, cpc, in_pipe, peer, sent,
                   received, apc, app_running, python, trading_engine,
                   control_call>>

\* processTradingSignal returns to handlePythonMessage, and that to readerLoop.
ProcessTradingSignalReturn(junk, race) ==
    /\ ~crashed
    /\ rpc = "in_signal"
    /\ LET signal == fromJson(Chars(msg), junk)
           serial == processTradingSignal(Engine, signal)
           stale == processTradingSignal(reader_call[1], signal)
       IN /\ SetEngine(raceOutcome(reader_call[1], serial.e, stale.e, race))
          /\ last' = [op |-> "processTradingSignal",
                      ret |-> IF Engine = reader_call[1] \/ race = "serial"
                              THEN serial.ret ELSE stale.ret]
    /\ reader_call' = << >>
    /\ msg' = << >>
    /\ rpc' = "split"
    /\ UNCHANGED <<running, read_fd, reader_joinable, message_queue,
                   message_callback, message, cpc, in_pipe, peer, sent,
                   callback_log, received, apc, app_running, python,
                   trading_engine, control_call>>

(* ---- the analyzer process ---- *)
\* The analyzer exits, of itself or on SIGTERM; its write end closes with it.
PeerExit ==
    /\ python = "alive"
    /\ python' = "exited"
    /\ peer' = "idle"
    /\ UNCHANGED <<engineVars, running, read_fd, reader_joinable,
                   message_queue, message_callback, rpc, message, msg, cpc,
                   in_pipe, sent, callback_log, received, apc, app_running,
                   trading_engine, reader_call, control_call>>

(* ========================= the specifications ========================== *)
\* The Engine alone, its calls made one after the other.
EngineSpecInit ==
    /\ EngineInit
    /\ IPCInit
    /\ AppInit
    /\ message_callback

EngineNext ==
    \/ \E symbol \in Symbols, side \in Sides, quantity \in Quantities,
          order_type \in OrderTypes, price \in Prices :
           PlaceOrder(symbol, side, quantity, order_type, price)
           /\ UNCHANGED <<ipcVars, appVars, sendVars, storeVars>>
    \/ \E signal \in Signals :
           ProcessTradingSignal(signal) /\ UNCHANGED <<ipcVars, appVars, sendVars, storeVars>>
    \/ \E current_prices \in PriceMaps :
         \E ub \in [DOMAIN positions \cap DOMAIN current_prices -> UBOutcomes] :
           UpdatePositionPrices(current_prices, ub)
           /\ UNCHANGED <<ipcVars, appVars, sendVars, storeVars>>
    \/ \E max_size \in MaxPositionSizes :
           SetMaxPositionSize(max_size) /\ UNCHANGED <<ipcVars, appVars, sendVars, storeVars>>
    \/ \E max_dd \in MaxDrawdowns :
           SetMaxDrawdown(max_dd) /\ UNCHANGED <<ipcVars, appVars, sendVars, storeVars>>

SpecEngine == EngineSpecInit /\ [][EngineNext]_vars

\* The Transport alone: a caller, the reader thread and the peer.
IPCSpecInit ==
    /\ IPCInit
    /\ EngineInit
    /\ AppInit
    /\ mode = "PAPER"

IPCNext ==
    \/ Start /\ UNCHANGED <<engineVars, appVars, sendVars, storeVars>>
    \/ StopBegin /\ UNCHANGED <<engineVars, appVars, sendVars, storeVars>>
    \/ StopJoin /\ UNCHANGED <<engineVars, appVars, sendVars, storeVars>>
    \/ ReceiveMessage /\ UNCHANGED <<engineVars, appVars, sendVars, storeVars>>
    \/ ReaderLoopHead /\ UNCHANGED <<engineVars, appVars, sendVars, storeVars>>
    \/ ReaderOpen /\ UNCHANGED <<engineVars, appVars, sendVars, storeVars>>
    \/ ReaderRead /\ UNCHANGED <<engineVars, appVars, sendVars, storeVars>>
    \/ ReaderEof /\ UNCHANGED <<engineVars, appVars, sendVars, storeVars>>
    \/ ReaderSplit /\ UNCHANGED <<engineVars, appVars, sendVars, storeVars>>
    \/ ReaderCallback /\ UNCHANGED <<engineVars, appVars, sendVars, storeVars>>
    \/ PeerOpen /\ UNCHANGED <<engineVars, appVars, sendVars, storeVars>>
    \/ PeerClose /\ UNCHANGED <<engineVars, appVars, sendVars, storeVars>>
    \/ \E payload \in Payloads :
           PeerWrite(payload) /\ UNCHANGED <<engineVars, appVars, sendVars, storeVars>>

SpecIPC == IPCSpecInit /\ [][IPCNext]_vars

\* The Transport with its threads scheduled fairly; the peer owes nothing.
SpecIPCFair ==
    SpecIPC /\ WF_vars(ReaderStep /\ UNCHANGED <<engineVars, appVars, sendVars, storeVars>>)
            /\ WF_vars(ControlStep /\ UNCHANGED <<engineVars, appVars, sendVars, storeVars>>)

\* The application: the main thread, the reader thread with the engine behind
\* its callback, and the analyzer process.
AppSpecInit ==
    /\ AppInit
    /\ IPCInit
    /\ EngineInit
    /\ message_callback
    /\ mode = "PAPER"

AppReaderNext ==
    \/ ~crashed /\ ReaderLoopHead /\ UNCHANGED <<engineVars, appVars, sendVars, storeVars>>
    \/ ~crashed /\ ReaderOpen /\ UNCHANGED <<engineVars, appVars, sendVars, storeVars>>
    \/ ~crashed /\ ReaderRead /\ UNCHANGED <<engineVars, appVars, sendVars, storeVars>>
    \/ ~crashed /\ ReaderEof /\ UNCHANGED <<engineVars, appVars, sendVars, storeVars>>
    \/ ~crashed /\ ReaderSplit /\ UNCHANGED <<engineVars, appVars, sendVars, storeVars>>
    \/ HandlePythonMessage /\ UNCHANGED <<sendVars, storeVars>>
    \/ \E junk \in JunkSignals, race \in RaceOutcomes :
           ProcessTradingSignalReturn(junk, race) /\ UNCHANGED <<sendVars, storeVars>>

AppControlNext ==
    \/ AppStartTransport /\ UNCHANGED <<sendVars, storeVars>>
    \/ AppStartPython /\ UNCHANGED <<sendVars, storeVars>>
    \/ AppInitEngine /\ UNCHANGED <<sendVars, storeVars>>
    \/ AppLoop /\ UNCHANGED <<sendVars, storeVars>>
    \/ /\ apc = "in_update"
       /\ UNCHANGED <<sendVars, storeVars>>
       /\ \E current_prices \in AppPriceMaps, race \in RaceOutcomes :
            \E ub \in [(DOMAIN positions \cup DOMAIN control_call[1].positions)
                         \cap DOMAIN current_prices -> UBOutcomes] :
              AppUpdatePortfolioReturn(current_prices, ub, race)
    \/ AppStopPython /\ UNCHANGED <<sendVars, storeVars>>
    \/ AppWaitpid /\ UNCHANGED <<sendVars, storeVars>>
    \/ AppStopTransport /\ UNCHANGED <<sendVars, storeVars>>
    \/ AppJoinTransport /\ UNCHANGED <<sendVars, storeVars>>
    \/ AppLogFinal /\ UNCHANGED <<sendVars, storeVars>>

AppPeerNext ==
    \/ ~crashed /\ python = "alive" /\ PeerOpen
                /\ UNCHANGED <<engineVars, appVars, sendVars, storeVars>>
    \/ ~crashed /\ python = "alive" /\ PeerClose
                /\ UNCHANGED <<engineVars, appVars, sendVars, storeVars>>
    \/ \E payload \in Payloads :
           ~crashed /\ python = "alive" /\ PeerWrite(payload)
                    /\ UNCHANGED <<engineVars, appVars, sendVars, storeVars>>
    \/ ~crashed /\ PeerExit /\ UNCHANGED <<sendVars, storeVars>>

AppNext ==
    \/ SignalHandler /\ UNCHANGED <<sendVars, storeVars>>
    \/ AppControlNext
    \/ AppReaderNext
    \/ AppPeerNext

SpecApp == AppSpecInit /\ [][AppNext]_vars

\* The application with both threads scheduled fairly and an analyzer that
\* exits when it is sent SIGTERM.
SpecAppFair ==
    SpecApp /\ WF_vars(AppControlNext)
            /\ WF_vars(AppReaderNext)
            /\ WF_vars(apc = "waitpid" /\ ~crashed /\ PeerExit
                            /\ UNCHANGED <<sendVars, storeVars>>)

(* ======================= claims about the Engine ======================= *)
AllOrderIds == DOMAIN pending_orders \cup DOMAIN filled_orders

\* Quantities and prices that put an order below, at and above each limit.
RiskQuantities == {-5, 0, 1, 5, 6}
RiskPrices ==
    {0, 1000, cash_balance, cash_balance + 1,
     max_position_size, max_position_size + 1}

\* C7: checkRiskLimits rejects exactly when the notional quantity * price
\* exceeds the maximum position notional, or exceeds the cash, or the drawdown
\* (peak - equity) / peak exceeds the maximum drawdown; an order exactly at a
\* limit passes.
C7_RiskLimitsExact ==
    LET equity == cash_balance
                  + SumOver([s \in DOMAIN positions |->
                                positions[s].quantity * positions[s].current_price],
                            DOMAIN positions)
        drawdown_over == (peak_balance - equity) * 100 > max_drawdown * peak_balance
    IN \A symbol \in Symbols, quantity \in RiskQuantities, price \in RiskPrices :
          LET notional == quantity * price
              rejects == \/ notional > max_position_size
                         \/ notional > cash_balance
                         \/ drawdown_over
          IN checkRiskLimits(Engine, symbol, quantity, price) = ~rejects

\* C7 witness: placeOrder has just returned empty in a state where the drawdown
\* exceeds its maximum, so that an order of notional 0, within the position
\* limit and the cash, is rejected for the drawdown alone.
C7_Witness ==
    /\ last.op = "placeOrder"
    /\ last.ret = NoOrder
    /\ drawdownExceeded(Engine)
    /\ cash_balance >= 0
    /\ ~checkRiskLimits(Engine, "BTC", 5, 0)

\* C8: placeOrder with quantity <= 0 or with an order that fails
\* checkRiskLimits returns the empty id, does not kill the process, stores no
\* order in either table and leaves cash, positions and peak equity as they were.
C8_RejectedOrderHasNoEffect ==
    [][last'.op = "placeOrder" =>
       \A symbol \in Symbols, side \in Sides, quantity \in Quantities,
          order_type \in OrderTypes, price \in Prices :
          (/\ PlaceOrder(symbol, side, quantity, order_type, price)
           /\ (quantity <= 0
               \/ ~checkRiskLimits(Engine, symbol, quantity, price)))
          => /\ last'.ret = NoOrder
             /\ ~crashed'
             /\ UNCHANGED <<cash_balance, positions, peak_balance,
                            pending_orders, filled_orders, order_counter>>]_vars

\* C8 witness: placeOrder has returned empty in a state that holds a position
\* and an order.
C8_Witness ==
    /\ last.op = "placeOrder"
    /\ last.ret = NoOrder
    /\ DOMAIN positions # {}
    /\ AllOrderIds # {}

\* C9: an accepted order is filled before placeOrder returns only in PAPER
\* mode and only if it is a MARKET order; otherwise it is in the pending table
\* with status PENDING and cash, positions and peak equity are unchanged.
C9_FillOnlyPaperMarket ==
    [][last'.op = "placeOrder" =>
       \A symbol \in Symbols, side \in Sides, quantity \in Quantities,
          order_type \in OrderTypes, price \in Prices :
          (/\ PlaceOrder(symbol, side, quantity, order_type, price)
           /\ last'.ret # NoOrder)
          => LET id == last'.ret
             IN IF mode = "PAPER" /\ order_type = "MARKET"
                THEN /\ id \in DOMAIN filled_orders'
                     /\ filled_orders'[id].status = "FILLED"
                     /\ id \notin DOMAIN pending_orders'
                ELSE /\ id \in DOMAIN pending_orders'
                     /\ pending_orders'[id].status = "PENDING"
                     /\ id \notin DOMAIN filled_orders'
                     /\ UNCHANGED <<cash_balance, positions, peak_balance>>]_vars

\* C9 witness: in LIVE mode placeOrder has accepted an order, which is pending,
\* and the cash is what it was at the start.
C9_Witness ==
    /\ mode = "LIVE"
    /\ last.op = "placeOrder"
    /\ last.ret # NoOrder
    /\ last.ret \in DOMAIN pending_orders
    /\ pending_orders[last.ret].order_type = "MARKET"
    /\ cash_balance = InitialBalance

\* C10 (as claimed): whenever updatePositionPrices gives a held position a
\* price at which stop loss or take profit triggers, the call creates a SELL
\* MARKET order for the position's full quantity, and in PAPER mode the
\* position is closed when the call returns.
C10_TriggerCreatesSell ==
    [][\A current_prices \in PriceMaps :
         \A ub \in [DOMAIN positions \cap DOMAIN current_prices -> UBOutcomes] :
           UpdatePositionPrices(current_prices, ub) =>
             \A symbol \in DOMAIN positions \cap DOMAIN current_prices :
               (\/ stopLossTriggered(positions[symbol], current_prices[symbol])
                \/ takeProfitTriggered(positions[symbol], current_prices[symbol]))
               => \/ crashed'
                  \/ /\ \E id \in (DOMAIN pending_orders' \cup DOMAIN filled_orders')
                                     \ AllOrderIds :
                          LET o == IF id \in DOMAIN filled_orders'
                                   THEN filled_orders'[id]
                                   ELSE pending_orders'[id]
                          IN /\ o.symbol = symbol
                             /\ o.side = "SELL"
                             /\ o.order_type = "MARKET"
                             /\ o.quantity = positions[symbol].quantity
                     /\ mode = "PAPER" => symbol \notin DOMAIN positions']_vars

(* ====================== claims about the Transport ===================== *)
\* Everything ever pushed on the queue, in push order.
Enqueued == received \o message_queue

\* The write a handed-over message stems from: the tag of its last token.
Origins(log) == [i \in 1..Len(log) |-> log[i][Len(log[i])].m]

StrictlyIncreasing(seq) ==
    \A i, j \in 1..Len(seq) : i < j => seq[i] < seq[j]

IsPrefix(p, q) == Len(p) <= Len(q) /\ p = SubSeq(q, 1, Len(p))

\* C2 (as claimed): a message sent as message + "\n" in one write is returned
\* by receiveMessage exactly as sent, however the bytes fall into the reads:
\* every message receiveMessage returns is all of one written payload.
C2_RoundTrip ==
    \A i \in 1..Len(received) :
        \E k \in 1..Len(sent) : received[i] = Tagged(sent[k], k)

\* C3: messages come out in write order.  What the Transport enqueues, what it
\* passes to the callback and what receiveMessage returns is ordered as the
\* writes it stems from, and a message is passed to the callback before the
\* next one is enqueued.
C3_WriteOrder ==
    /\ StrictlyIncreasing(Origins(Enqueued))
    /\ StrictlyIncreasing(Origins(callback_log))
    /\ StrictlyIncreasing(Origins(received))
    /\ message_callback =>
           /\ IsPrefix(callback_log, Enqueued)
           /\ Len(Enqueued) <= Len(callback_log) + 1

\* C3 witness: two messages were written, and both went intact through the
\* callback and through receiveMessage, the first first.
C3_Witness ==
    /\ Len(sent) = 2
    /\ callback_log = <<Tagged(sent[1], 1), Tagged(sent[2], 2)>>
    /\ received = callback_log

\* stop() has returned and start() has not been called since (or ever).
Stopped == ~running /\ ~reader_joinable /\ cpc = "idle"

\* C4: once stop() has returned the reader thread has exited and the callback
\* is not invoked again, whatever the peer has written or writes.
C4_NoCallbackAfterStop ==
    [][Stopped => /\ rpc \in {"none", "exited"}
                  /\ (Stopped' => callback_log' = callback_log)]_vars

\* C4 witness: stop() has returned after the callback was invoked, with bytes
\* of the peer still unread in the pipe and the peer's write end open.
C4_Witness ==
    /\ Stopped
    /\ rpc = "exited"
    /\ callback_log # << >>
    /\ in_pipe # << >>
    /\ peer = "open"

\* C5 (as claimed): stop() eventually returns with the reader thread exited
\* from every state reached after start().
C5_StopReturns ==
    (cpc = "joining") ~> (cpc = "idle" /\ rpc = "exited")

(* ===================== claims about the application ==================== *)
\* C1 (as claimed): the reader thread's processTradingSignal and the main
\* thread's updatePositionPrices are never both between their reads and their
\* writes of the Engine.
C1_MutuallyExclusive ==
    ~(reader_call # << >> /\ control_call # << >>)

\* The peer is stopped before the transport, the transport before the log.
ShutdownInOrder ==
    /\ (apc = "shutdown_ipc" => python = "none")
    /\ (apc \in {"log", "done"} => python = "none" /\ Stopped /\ rpc = "exited")

\* C6 (as claimed): once the shutdown signal is received, shutdown runs in
\* order (peer, transport, log) and eventually completes.
C6_ShutdownCompletes ==
    /\ []ShutdownInOrder
    /\ (~app_running /\ ~crashed) ~> (apc = "done" \/ crashed)

(* ================= claims about the Portfolio's positions ============== *)
\* The total quantity of the FILLED orders of one symbol and side.
FilledQuantity(symbol, side) ==
    LET ids == {id \in DOMAIN filled_orders :
                   /\ filled_orders[id].symbol = symbol
                   /\ filled_orders[id].side = side
                   /\ filled_orders[id].status = "FILLED"}
    IN SumOver([id \in ids |-> filled_orders[id].quantity], ids)

\* The quantity held of a symbol, zero when no position exists.
PositionQuantity(symbol) ==
    IF symbol \in DOMAIN positions THEN positions[symbol].quantity ELSE 0

\* C11: in every state reached from an empty portfolio by placeOrder,
\* processTradingSignal and updatePositionPrices, the quantity held of each
\* symbol (zero when no position exists) equals the total quantity of its
\* FILLED BUY orders minus the total quantity of its FILLED SELL orders.
C11_PositionIsNetOfFills ==
    ~crashed =>
        \A symbol \in Symbols :
            PositionQuantity(symbol)
                = FilledQuantity(symbol, "BUY") - FilledQuantity(symbol, "SELL")

(* ============== the Engine in PAPER mode with small orders ============= *)
\* Orders small enough that a second BUY of a symbol is within the cash and a
\* SELL can close a position in part, at two limit prices, and market prices
\* on both sides of the stop-loss and take-profit thresholds and between them.
FillQuantities == {2, 3}
FillPrices == {1000, 1040}
FillMarketPrices == {970, 1010, 1060}
FillSymbols == {"BTC"}
FillSignals ==
    [symbol : FillSymbols, action : {"BUY", "SELL", "HOLD"},
     confidence : {100}, suggested_position_size : {6000}]
FillPriceMaps ==
    UNION {[S -> FillMarketPrices] : S \in SUBSET FillSymbols}

PortfolioSpecInit ==
    /\ EngineSpecInit
    /\ mode = "PAPER"

PortfolioNext ==
    \/ \E symbol \in FillSymbols, side \in Sides, quantity \in FillQuantities,
          price \in FillPrices :
           PlaceOrder(symbol, side, quantity, "MARKET", price)
           /\ UNCHANGED <<ipcVars, appVars, sendVars, storeVars>>
    \/ \E signal \in FillSignals :
           ProcessTradingSignal(signal) /\ UNCHANGED <<ipcVars, appVars, sendVars, storeVars>>
    \/ \E current_prices \in FillPriceMaps :
         \E ub \in [DOMAIN positions \cap DOMAIN current_prices -> UBOutcomes] :
           UpdatePositionPrices(current_prices, ub)
           /\ UNCHANGED <<ipcVars, appVars, sendVars, storeVars>>
    \/ \E max_size \in MaxPositionSizes :
           SetMaxPositionSize(max_size) /\ UNCHANGED <<ipcVars, appVars, sendVars, storeVars>>
    \/ \E max_dd \in MaxDrawdowns :
           SetMaxDrawdown(max_dd) /\ UNCHANGED <<ipcVars, appVars, sendVars, storeVars>>

SpecPortfolio == PortfolioSpecInit /\ [][PortfolioNext]_vars

(* ================== claims about fills in PAPER mode =================== *)
\* The SELL orders of a symbol that the step has filled.
SellsFilledInStep(symbol) ==
    {id \in DOMAIN filled_orders' \ DOMAIN filled_orders :
        /\ filled_orders'[id].symbol = symbol
        /\ filled_orders'[id].side = "SELL"}

\* C12: a position is removed exactly when a SELL fill brings its quantity to
\* zero: it is removed by an Engine operation if and only if the operation
\* filled a SELL of exactly the quantity held; a SELL fill of less than the
\* quantity held keeps it with the quantity reduced by the fill and the entry
\* price unchanged; and no position of quantity <= 0 is present when an Engine
\* operation has returned.
C12_RemovedExactlyAtZero ==
    [][~crashed' =>
        \A symbol \in Symbols :
            /\ symbol \in DOMAIN positions' => positions'[symbol].quantity > 0
            /\ symbol \in DOMAIN positions =>
                /\ symbol \notin DOMAIN positions'
                     <=> \E id \in SellsFilledInStep(symbol) :
                            filled_orders'[id].quantity = positions[symbol].quantity
                /\ \A id \in SellsFilledInStep(symbol) :
                      filled_orders'[id].quantity < positions[symbol].quantity
                      => /\ symbol \in DOMAIN positions'
                         /\ positions'[symbol].quantity
                              = positions[symbol].quantity - filled_orders'[id].quantity
                         /\ positions'[symbol].entry_price
                              = positions[symbol].entry_price]_vars

\* The orders that the step has filled, and the BUY orders among them.
FilledInStep == DOMAIN filled_orders' \ DOMAIN filled_orders
BuysFilledInStep == {id \in FilledInStep : filled_orders'[id].side = "BUY"}

\* C13: an Engine operation that fills a BUY of quantity q at fill price p
\* leaves the cash balance at its value before the operation minus q * p, and
\* an operation that fills no order (a price update without a trigger, a
\* rejected order, a setter) leaves the cash balance as it was.
C13_BuyFillChargesCash ==
    [][~crashed' =>
        /\ \A id \in BuysFilledInStep :
              cash_balance' = cash_balance
                  - filled_orders'[id].quantity * filled_orders'[id].price
        /\ FilledInStep = {} => cash_balance' = cash_balance]_vars

\* C13 witness: placeOrder has filled the first order, a BUY, and the cash is
\* the initial balance less its quantity times its fill price.
C13_Witness ==
    /\ last.op = "placeOrder"
    /\ DOMAIN filled_orders = {last.ret}
    /\ filled_orders[last.ret].side = "BUY"
    /\ filled_orders[last.ret].price > 0
    /\ cash_balance = InitialBalance
           - filled_orders[last.ret].quantity * filled_orders[last.ret].price

\* The FILLED orders of a symbol.
FillsOf(symbol) ==
    {id \in DOMAIN filled_orders : filled_orders[id].symbol = symbol}

\* C14: when the fills of a symbol, starting from no position, are two BUY
\* fills (q1, p1) and then (q2, p2), the position has quantity q1 + q2 and
\* entry price (q1 * p1 + q2 * p2) / (q1 + q2), to the rounding of the price
\* unit.
C14_WeightedAverageEntry ==
    ~crashed =>
        \A symbol \in Symbols :
          \A id1, id2 \in FillsOf(symbol) :
            (/\ id1 < id2
             /\ FillsOf(symbol) = {id1, id2}
             /\ filled_orders[id1].side = "BUY"
             /\ filled_orders[id2].side = "BUY")
            => LET q1 == filled_orders[id1].quantity
                   p1 == filled_orders[id1].price
                   q2 == filled_orders[id2].quantity
                   p2 == filled_orders[id2].price
               IN /\ symbol \in DOMAIN positions
                  /\ positions[symbol].quantity = q1 + q2
                  /\ positions[symbol].entry_price
                       = RoundDiv(q1 * p1 + q2 * p2, q1 + q2)

\* C14 witness: two BUY fills of BTC of different quantities at different
\* prices have been merged, and the entry price lies strictly between the two
\* fill prices.
C14_Witness ==
    /\ ~crashed
    /\ DOMAIN filled_orders = {1, 2}
    /\ \A id \in {1, 2} : /\ filled_orders[id].symbol = "BTC"
                          /\ filled_orders[id].side = "BUY"
    /\ filled_orders[1].quantity < filled_orders[2].quantity
    /\ filled_orders[1].price < filled_orders[2].price
    /\ "BTC" \in DOMAIN positions
    /\ positions["BTC"].entry_price > filled_orders[1].price
    /\ positions["BTC"].entry_price < filled_orders[2].price

\* C15: no Engine operation (placing an order, a fill, a signal, a price
\* update, a risk-parameter setter) decreases the peak equity.
C15_PeakNeverDecreases ==
    [][peak_balance' >= peak_balance]_vars

\* C15 witness: a SELL fill has raised the peak above the initial balance, and
\* the equity has since fallen below the peak.
C15_Witness ==
    /\ ~crashed
    /\ peak_balance > InitialBalance
    /\ getEquity(Engine) < peak_balance

\* C16: in every reachable state the unrealized P&L of each position equals
\* its quantity times the difference of its current price and its entry
\* price, in particular after a BUY fill has been merged into the position and
\* after a partial SELL fill.
C16_UnrealizedPnlIsDerived ==
    ~crashed =>
        \A symbol \in DOMAIN positions :
            positions[symbol].unrealized_pnl
                = positions[symbol].quantity
                    * (positions[symbol].current_price - positions[symbol].entry_price)

(* ===================== claims about trading signals ==================== *)
\* The candidate size of a signal in the current state:
\* min(suggestedSize * confidence, 0.95 * availableCash, maxPositionSize).
CandidateSize(signal) ==
    LET by_confidence ==
            RoundDiv(signal.suggested_position_size * signal.confidence, 100)
        by_cash == RoundDiv(cash_balance * 95, 100)
    IN Min(Min(by_confidence, by_cash), max_position_size)

\* The order of an id after the step, in whichever table holds it.
OrderAfterStep(id) ==
    IF id \in DOMAIN filled_orders' THEN filled_orders'[id]
    ELSE pending_orders'[id]

\* The step has created exactly one order, and no other order has changed
\* tables.
OneOrderCreated ==
    /\ order_counter' = order_counter + 1
    /\ last'.ret = order_counter'
    /\ DOMAIN pending_orders' \cup DOMAIN filled_orders'
         = AllOrderIds \cup {order_counter'}
    /\ order_counter' \notin AllOrderIds

\* The step has created no order and has left the Portfolio and the order
\* tables as they were.
NoOrderCreated ==
    /\ last'.ret = NoOrder
    /\ UNCHANGED <<cash_balance, positions, peak_balance, order_counter,
                   pending_orders, filled_orders>>

\* The step is processTradingSignal of a BUY signal with a positive candidate
\* size on a symbol that is not held.
BuySignalStep(signal) ==
    /\ ProcessTradingSignal(signal)
    /\ signal.action = "BUY"
    /\ ~(signal.symbol \in DOMAIN positions
         /\ positions[signal.symbol].quantity > 0)
    /\ CandidateSize(signal) > 0

\* The step has created exactly one BUY MARKET order of the signal's symbol,
\* whose notional at the assumed price is the candidate size.
SizedBuyCreated(signal) ==
    /\ OneOrderCreated
    /\ LET order == OrderAfterStep(order_counter')
       IN /\ order.symbol = signal.symbol
          /\ order.side = "BUY"
          /\ order.order_type = "MARKET"
          /\ order.quantity = RoundDiv(CandidateSize(signal), AssumedPrice)

\* C17 as stated: for a BUY signal on a symbol with no position and a positive
\* candidate size, processTradingSignal places exactly one BUY MARKET order
\* whose size is min(suggestedSize * confidence, 0.95 * availableCash,
\* maxPositionSize).
C17_BuySignalAlwaysPlaces ==
    [][last'.op = "processTradingSignal" =>
        \A signal \in Signals :
            BuySignalStep(signal) => SizedBuyCreated(signal)]_vars

\* C17 amended: for such a signal processTradingSignal places exactly one BUY
\* MARKET order of that size, at the assumed price of 100000, unless the
\* drawdown exceeds its maximum, in which case placeOrder rejects the order
\* and nothing changes.
C17_BuySignalPlacesUnlessDrawdown ==
    [][last'.op = "processTradingSignal" =>
        \A signal \in Signals :
            BuySignalStep(signal) =>
                IF (peak_balance - getEquity(Engine)) * 100
                       > max_drawdown * peak_balance
                THEN NoOrderCreated
                ELSE SizedBuyCreated(signal)]_vars

\* C17 witness: processTradingSignal has placed a BUY MARKET order of 0.05 BTC,
\* the maximum position size of 5000 at the assumed price, on an Engine that
\* held no position.
C17_Witness ==
    /\ last.op = "processTradingSignal"
    /\ last.ret = 1
    /\ AllOrderIds = {1}
    /\ LET order == IF 1 \in DOMAIN filled_orders THEN filled_orders[1]
                    ELSE pending_orders[1]
       IN /\ order.side = "BUY"
          /\ order.order_type = "MARKET"
          /\ order.quantity * AssumedPrice = DefaultMaxPositionSize

\* C18: for a SELL signal with a positive candidate size on a symbol that is
\* held, processTradingSignal creates exactly one SELL MARKET order of that
\* symbol whose quantity is the whole quantity held, in every reachable state
\* of the Portfolio.
C18_SellSignalCreatesSell ==
    [][last'.op = "processTradingSignal" =>
        \A signal \in Signals :
            (/\ ProcessTradingSignal(signal)
             /\ signal.action = "SELL"
             /\ signal.symbol \in DOMAIN positions
             /\ positions[signal.symbol].quantity > 0
             /\ CandidateSize(signal) > 0)
            => /\ OneOrderCreated
               /\ LET order == OrderAfterStep(order_counter')
                  IN /\ order.symbol = signal.symbol
                     /\ order.side = "SELL"
                     /\ order.order_type = "MARKET"
                     /\ order.quantity = positions[signal.symbol].quantity]_vars

\* C19: processTradingSignal creates no order and leaves the Portfolio and the
\* order tables unchanged when the action is HOLD, when the candidate size is
\* not positive, when the action is BUY and the symbol is already held, and
\* when the action is SELL and the symbol is not held.
C19_SignalNoOp ==
    [][last'.op = "processTradingSignal" =>
        \A signal \in Signals :
            (/\ ProcessTradingSignal(signal)
             /\ \/ signal.action = "HOLD"
                \/ CandidateSize(signal) <= 0
                \/ signal.action = "BUY" /\ signal.symbol \in DOMAIN positions
                \/ signal.action = "SELL" /\ signal.symbol \notin DOMAIN positions)
            => NoOrderCreated]_vars

\* C19 witness: processTradingSignal has returned without an order on an
\* Engine that holds BTC alone, has cash for an order and is within its
\* drawdown limit, where a BUY of ETH or a SELL of BTC would have been placed:
\* the signal was one of the four cases.
C19_Witness ==
    /\ ~crashed
    /\ last = [op |-> "processTradingSignal", ret |-> NoOrder]
    /\ DOMAIN positions = {"BTC"}
    /\ cash_balance >= AssumedPrice
    /\ ~drawdownExceeded(Engine)
    /\ \A signal \in Signals :
          processTradingSignal(Engine, signal).ret = NoOrder
          => \/ signal.action = "HOLD"
             \/ CandidateSize(signal) <= 0
             \/ signal.action = "BUY" /\ signal.symbol = "BTC"
             \/ signal.action = "SELL" /\ signal.symbol = "ETH"

(* ============ the Engine after initialize has loaded positions ========= *)
\* TradingEngine::initialize copies the open positions of the database into
\* the Portfolio: none, or one that an earlier run has left open.
LoadedPositions ==
    {EmptyMap,
     [symbol \in {"BTC"} |->
        [quantity |-> 3, entry_price |-> 1000, current_price |-> 1000,
         unrealized_pnl |-> 0]]}

LoadedSpecInit ==
    /\ StoreInit
    /\ mode \in Modes
    /\ cash_balance = InitialBalance
    /\ positions \in LoadedPositions
    /\ peak_balance = InitialBalance
    /\ max_position_size = DefaultMaxPositionSize
    /\ max_drawdown = DefaultMaxDrawdown
    /\ order_counter = 0
    /\ pending_orders = EmptyMap
    /\ filled_orders = EmptyMap
    /\ crashed = FALSE
    /\ last = [op |-> "init", ret |-> NoOrder]
    /\ IPCInit
    /\ AppInit
    /\ message_callback

\* In LIVE mode a triggered SELL stays pending and the position stays open, so
\* that every further price update can place another order: the price updates
\* are counted against the bound on the orders.
LoadedNext ==
    \/ \E symbol \in FillSymbols, side \in Sides, quantity \in FillQuantities,
          price \in FillPrices :
           PlaceOrder(symbol, side, quantity, "MARKET", price)
           /\ UNCHANGED <<ipcVars, appVars, sendVars, storeVars>>
    \/ \E signal \in FillSignals :
           ProcessTradingSignal(signal) /\ UNCHANGED <<ipcVars, appVars, sendVars, storeVars>>
    \/ \E current_prices \in FillPriceMaps :
         \E ub \in [DOMAIN positions \cap DOMAIN current_prices -> UBOutcomes] :
           /\ order_counter < MaxOrders
           /\ UpdatePositionPrices(current_prices, ub)
           /\ UNCHANGED <<ipcVars, appVars, sendVars, storeVars>>

SpecLoaded == LoadedSpecInit /\ [][LoadedNext]_vars

(* ====================== claims about price updates ===================== *)
\* C20: for every trading mode and every reachable state of the Portfolio,
\* when updatePositionPrices is called twice in succession with the same price
\* map, the second call creates no new order.
C20_SecondUpdateCreatesNoOrder ==
    ~crashed =>
        \A current_prices \in FillPriceMaps :
          \A ub1 \in [DOMAIN positions \cap DOMAIN current_prices -> UBOutcomes] :
            LET e1 == updatePositionPrices(Engine, current_prices, ub1)
            IN ~e1.crashed =>
                \A ub2 \in [DOMAIN e1.positions \cap DOMAIN current_prices
                              -> UBOutcomes] :
                   LET e2 == updatePositionPrices(e1, current_prices, ub2)
                   IN ~e2.crashed => e2.order_counter = e1.order_counter

(* ========== placeOrder called with and without its price argument ====== *)
\* placeOrder's price parameter defaults to 0.0; a caller that names no price
\* places the order at price 0.
DefaultPrice == 0
OrderQuantities == {5, 10}
OrderPrices == {DefaultPrice, 1000}

OrdersNext ==
    \E symbol \in Symbols, side \in Sides, quantity \in OrderQuantities,
       order_type \in OrderTypes, price \in OrderPrices :
        PlaceOrder(symbol, side, quantity, order_type, price)
        /\ UNCHANGED <<ipcVars, appVars, sendVars, storeVars>>

SpecOrders == EngineSpecInit /\ [][OrdersNext]_vars

(* ==================== claims about order placement ===================== *)
\* The Engine is in PAPER mode in its initial state: cash 10000, maximum
\* position size 5000, no order placed.
FreshPaperEngine ==
    /\ mode = "PAPER"
    /\ cash_balance = InitialBalance
    /\ max_position_size = DefaultMaxPositionSize
    /\ order_counter = 0
    /\ positions = EmptyMap

\* The only order so far is a filled BUY MARKET order of 0.05 BTC, placed on
\* the fresh Engine without a price.
AfterBoundaryBuy ==
    /\ mode = "PAPER"
    /\ max_position_size = DefaultMaxPositionSize
    /\ AllOrderIds = {1}
    /\ 1 \in DOMAIN filled_orders
    /\ filled_orders[1].symbol = "BTC"
    /\ filled_orders[1].side = "BUY"
    /\ filled_orders[1].quantity = 5
    /\ filled_orders[1].order_type = "MARKET"
    /\ cash_balance = InitialBalance - 5 * filled_orders[1].price

\* C21: starting with cash 10000 and maximum position size 5000 at the market
\* price 100000, placeOrder(BUY, BTC, 0.05, MARKET) is accepted, and a
\* subsequent placeOrder(BUY, BTC, 0.1, MARKET) is rejected.
C21_BoundaryScenario ==
    [][last'.op = "placeOrder" =>
        /\ (FreshPaperEngine
            /\ PlaceOrder("BTC", "BUY", 5, "MARKET", DefaultPrice))
           => last'.ret # NoOrder
        /\ (AfterBoundaryBuy
            /\ PlaceOrder("BTC", "BUY", 10, "MARKET", DefaultPrice))
           => last'.ret = NoOrder]_vars

(* ================= claims about price updates, continued =============== *)
\* C22: in every reachable state, updatePositionPrices leaves a held position
\* as it was, its current price and its unrealized P&L included, when the price
\* map has no entry for the position's symbol, and creates no order for that
\* symbol.
C22_UnpricedPositionUntouched ==
    ~crashed =>
        \A current_prices \in PriceMaps :
          DOMAIN positions \ DOMAIN current_prices # {} =>
            \A ub \in [DOMAIN positions \cap DOMAIN current_prices -> UBOutcomes] :
              LET e1 == updatePositionPrices(Engine, current_prices, ub)
                  created == (DOMAIN e1.pending_orders \cup DOMAIN e1.filled_orders)
                             \ AllOrderIds
              IN ~e1.crashed =>
                  \A symbol \in DOMAIN positions \ DOMAIN current_prices :
                     /\ symbol \in DOMAIN e1.positions
                     /\ e1.positions[symbol] = positions[symbol]
                     /\ \A id \in created :
                           (IF id \in DOMAIN e1.filled_orders
                            THEN e1.filled_orders[id]
                            ELSE e1.pending_orders[id]).symbol # symbol

\* C22 witness: BTC and ETH are held and updatePositionPrices has just marked
\* BTC at 97000 with a map that has no entry for ETH, which is still at its
\* fill price with an unrealized P&L of 0.
C22_Witness ==
    /\ ~crashed
    /\ last.op = "updatePositionPrices"
    /\ DOMAIN positions = {"BTC", "ETH"}
    /\ positions["BTC"].current_price = 970
    /\ positions["BTC"].unrealized_pnl < 0
    /\ positions["ETH"].current_price = positions["ETH"].entry_price
    /\ positions["ETH"].current_price \notin MarketPrices
    /\ positions["ETH"].unrealized_pnl = 0

(* ============================ cancelOrder ============================== *)
\* Mutant of cancelOrder: an order that is already filled is taken out of the
\* filled table.
cancelOrderRetractsFill(e, order_id) ==
    IF order_id \in DOMAIN e.pending_orders
    THEN [e |-> [e EXCEPT !.pending_orders = MapErase(e.pending_orders, order_id)],
          ret |-> TRUE]
    ELSE [e |-> [e EXCEPT !.filled_orders = MapErase(e.filled_orders, order_id)],
          ret |-> order_id \in DOMAIN e.filled_orders]

\* cancelOrder is declared by the class and defined nowhere in the sources;
\* it is modelled as the specification describes it: it removes a PENDING
\* order from the pending table and does nothing else.
cancelOrder(e, order_id) ==
    IF order_id \in DOMAIN e.pending_orders
    THEN [e |-> [e EXCEPT !.pending_orders = MapErase(e.pending_orders, order_id)],
          ret |-> TRUE]
    ELSE [e |-> e, ret |-> FALSE]

CancelOrder(order_id) ==
    /\ ~crashed
    /\ LET r == cancelOrder(Engine, order_id)
       IN /\ SetEngine(r.e)
          /\ last' = [op |-> "cancelOrder",
                      ret |-> IF r.ret THEN order_id ELSE NoOrder]

CancelNext ==
    \/ \E symbol \in Symbols, side \in Sides, quantity \in OrderQuantities,
          order_type \in OrderTypes, price \in OrderPrices :
           PlaceOrder(symbol, side, quantity, order_type, price)
           /\ UNCHANGED <<ipcVars, appVars, sendVars, storeVars>>
    \/ \E order_id \in 1..MaxOrders :
           CancelOrder(order_id) /\ UNCHANGED <<ipcVars, appVars, sendVars, storeVars>>

SpecCancel == EngineSpecInit /\ [][CancelNext]_vars

\* C23: cancelOrder on a PENDING order removes that order from the pending
\* table and changes nothing else; cancelOrder on an order that is already
\* FILLED retracts nothing: the filled order, the cash and the positions are
\* unchanged.
C23_CancelRemovesPendingOnly ==
    [][last'.op = "cancelOrder" =>
        \A order_id \in 1..MaxOrders :
            CancelOrder(order_id) =>
                /\ UNCHANGED <<mode, cash_balance, positions, peak_balance,
                               max_position_size, max_drawdown, order_counter,
                               filled_orders, crashed>>
                /\ order_id \in DOMAIN pending_orders =>
                      pending_orders' = MapErase(pending_orders, order_id)
                /\ order_id \notin DOMAIN pending_orders =>
                      pending_orders' = pending_orders]_vars

\* C23 witness: a pending order has been cancelled while a filled order and
\* its position are on the books.
C23_Witness ==
    /\ last.op = "cancelOrder"
    /\ last.ret # NoOrder
    /\ last.ret \notin AllOrderIds
    /\ filled_orders # EmptyMap
    /\ positions # EmptyMap

(* ===================== claims about the order tables =================== *)
\* C24: once an order has reached FILLED it never changes again: it stays in
\* the filled table with the same fields, it never reappears in the pending
\* table, and no later order overwrites it, because every new order takes an
\* identifier above all those given out before; in every state an order is in
\* at most one of the two tables.
C24_FilledIsFinal ==
    /\ [](/\ DOMAIN pending_orders \cap DOMAIN filled_orders = {}
          /\ \A id \in AllOrderIds : id <= order_counter)
    /\ [][/\ \A id \in DOMAIN filled_orders :
               /\ id \in DOMAIN filled_orders'
               /\ filled_orders'[id] = filled_orders[id]
               /\ filled_orders[id].status = "FILLED"
               /\ id \notin DOMAIN pending_orders'
          /\ \A id \in (DOMAIN pending_orders' \cup DOMAIN filled_orders')
                          \ AllOrderIds :
               id > order_counter]_vars

\* C24 witness: the first order is filled and a second order has been created
\* after it.
C24_Witness ==
    /\ 1 \in DOMAIN filled_orders
    /\ filled_orders[1].status = "FILLED"
    /\ order_counter = 2
    /\ 2 \in AllOrderIds

(* ===================== simulateFill on a LIMIT order =================== *)
\* Mutant of simulateOrderFill: the random draw is not looked at.
simulateOrderFillWithoutDraw(order, market_price, draw) ==
    IF order.order_type = "LIMIT"
    THEN \/ order.side = "BUY" /\ order.price >= market_price
         \/ order.side = "SELL" /\ order.price <= market_price
    ELSE TRUE

\* PaperTradingSimulator::simulateOrderFill; draw is the outcome of
\* dis(gen) < fill_probability.
simulateOrderFill(order, market_price, draw) ==
    IF order.order_type = "LIMIT"
       /\ order.side = "BUY" /\ order.price >= market_price
    THEN draw
    ELSE IF order.order_type = "LIMIT"
            /\ order.side = "SELL" /\ order.price <= market_price
    THEN draw
    ELSE order.order_type = "MARKET"

\* executeLimitOrder is declared by the class and defined nowhere in the
\* sources; it is modelled as the specification describes a LIMIT fill: the
\* order becomes FILLED at the given price, as executeMarketOrder does it.
executeLimitOrder(e, order, market_price) ==
    executeMarketOrder(e, order, market_price)

\* The LIMIT branch of simulateFill.
simulateFillLimit(e, order, market_price, draw) ==
    IF order.order_type = "LIMIT" /\ simulateOrderFill(order, market_price, draw)
    THEN executeLimitOrder(e, order, order.price)
    ELSE e

LimitMarketPrices == {990, 1000, 1050}

\* simulateFill applied to a pending LIMIT order.
SimulateFillLimit(order_id, market_price, draw) ==
    /\ ~crashed
    /\ order_id \in DOMAIN pending_orders
    /\ pending_orders[order_id].order_type = "LIMIT"
    /\ SetEngine(simulateFillLimit(Engine, pending_orders[order_id],
                                   market_price, draw))
    /\ last' = [op |-> "simulateFill", ret |-> order_id]

LimitNext ==
    \/ \E symbol \in FillSymbols, side \in Sides, quantity \in FillQuantities,
          order_type \in OrderTypes, price \in FillPrices :
           PlaceOrder(symbol, side, quantity, order_type, price)
           /\ UNCHANGED <<ipcVars, appVars, sendVars, storeVars>>
    \/ \E order_id \in 1..MaxOrders, market_price \in LimitMarketPrices,
          draw \in BOOLEAN :
           SimulateFillLimit(order_id, market_price, draw)
           /\ UNCHANGED <<ipcVars, appVars, sendVars, storeVars>>

SpecLimit == EngineSpecInit /\ [][LimitNext]_vars

\* The limit condition against the reference price: a BUY fills when its
\* limit is at or above the market, a SELL when its limit is at or below it.
LimitConditionHolds(order, market_price) ==
    \/ order.side = "BUY" /\ order.price >= market_price
    \/ order.side = "SELL" /\ order.price <= market_price

\* C25: simulateFill on a LIMIT order moves it to FILLED if and only if the
\* limit condition holds against the reference price and the random draw
\* succeeds; otherwise the order stays PENDING as it was, the Portfolio and
\* both order tables are unchanged and the process goes on.
C25_LimitFillCondition ==
    [][last'.op = "simulateFill" =>
        \A order_id \in DOMAIN pending_orders,
           market_price \in LimitMarketPrices, draw \in BOOLEAN :
            SimulateFillLimit(order_id, market_price, draw) =>
                IF LimitConditionHolds(pending_orders[order_id], market_price)
                   /\ draw
                THEN /\ order_id \in DOMAIN filled_orders'
                     /\ filled_orders'[order_id].status = "FILLED"
                     /\ order_id \notin DOMAIN pending_orders'
                ELSE /\ ~crashed'
                     /\ UNCHANGED <<cash_balance, positions, peak_balance,
                                    order_counter, pending_orders,
                                    filled_orders>>
                     /\ pending_orders'[order_id].status = "PENDING"]_vars

\* C25 witness: simulateFill has left a LIMIT BUY order pending whose limit is
\* below one of the reference prices and at or above another.
C25_Witness ==
    /\ last.op = "simulateFill"
    /\ last.ret \in DOMAIN pending_orders
    /\ pending_orders[last.ret].side = "BUY"
    /\ \E market_price \in LimitMarketPrices :
          ~LimitConditionHolds(pending_orders[last.ret], market_price)
    /\ \E market_price \in LimitMarketPrices :
          LimitConditionHolds(pending_orders[last.ret], market_price)

(* ================ IPCManager: the outbound side ======================== *)
\* Everything of the Engine but crashed, which a SIGPIPE sets.
engineButCrashed == <<mode, cash_balance, positions, peak_balance,
                      max_position_size, max_drawdown, order_counter,
                      pending_orders, filled_orders, last>>

\* initialize() = createNamedPipe(): both paths are unlinked, then the two
\* FIFOs are made; w_ok and r_ok are whether the OS accepts each mkfifo.  A
\* rejected second mkfifo unlinks the first FIFO again.  connected is set on
\* success and written nowhere else; write_fd is not touched.
Initialize(w_ok, r_ok) ==
    /\ ~crashed
    /\ spc = "idle"
    /\ fifos < MaxFifos
    /\ fifos' = IF w_ok THEN fifos + 1 ELSE fifos
    /\ write_pipe' = IF w_ok /\ r_ok THEN fifos + 1 ELSE 0
    /\ read_pipe' = (w_ok /\ r_ok)
    /\ connected' = IF w_ok /\ r_ok THEN TRUE ELSE connected
    /\ ipc_ret' = [op |-> "initialize", ret |-> w_ok /\ r_ok,
                   err |-> IF w_ok /\ r_ok THEN "none" ELSE "mkfifo"]
    /\ UNCHANGED <<write_fd, write_nonblock, spc, out_reader, out_level,
                   engineVars, ipcVars, appVars,
                   storeVars>>

\* Mutant of writeFailed: a failed write leaves the descriptor open.
writeFailedKeepsDescriptor(fd) ==
    /\ write_fd' = fd
    /\ spc' = "idle"
    /\ ipc_ret' = [op |-> "sendMessage", ret |-> FALSE, err |-> "write"]
    /\ UNCHANGED <<out_level, crashed>>

\* bytes_written == -1: the failure is written to the error stream, the
\* descriptor is closed and forgotten, false is returned.
writeFailed(fd) ==
    /\ write_fd' = 0
    /\ spc' = "idle"
    /\ ipc_ret' = [op |-> "sendMessage", ret |-> FALSE, err |-> "write"]
    /\ UNCHANGED <<out_level, crashed>>

\* write(write_fd, message + "\n") on the descriptor fd.  Without a reader on
\* the FIFO the process gets SIGPIPE: the program installs nothing for it, so
\* the disposition is the one it was started with, the default, which ends
\* the process, or an inherited SIG_IGN, with which the write fails with
\* EPIPE.  On a full FIFO a non-blocking descriptor fails with EAGAIN and a
\* blocking one waits.
writeMessage(fd, nonblock) ==
    /\ write_nonblock' = nonblock
    /\ IF out_reader # fd
       THEN \/ /\ crashed' = TRUE
               /\ write_fd' = fd
               /\ UNCHANGED <<spc, ipc_ret, out_level>>
            \/ writeFailed(fd)
       ELSE IF out_level >= PipeCapacity
       THEN IF nonblock
            THEN writeFailed(fd)
            ELSE /\ spc' = "writing"
                 /\ write_fd' = fd
                 /\ UNCHANGED <<ipc_ret, out_level, crashed>>
       ELSE /\ out_level' = out_level + 1
            /\ write_fd' = fd
            /\ spc' = "idle"
            /\ ipc_ret' = [op |-> "sendMessage", ret |-> TRUE, err |-> "none"]
            /\ UNCHANGED crashed

\* sendMessage up to its return or to the call it blocks in.  Without a
\* descriptor the FIFO is opened: O_WRONLY | O_NONBLOCK succeeds when a reader
\* has the FIFO open; otherwise O_WRONLY fails when no file is there and waits
\* for a reader when one is.
SendMessage ==
    /\ ~crashed
    /\ spc = "idle"
    /\ IF ~connected
       THEN /\ ipc_ret' = [op |-> "sendMessage", ret |-> FALSE, err |-> "none"]
            /\ UNCHANGED <<write_fd, write_nonblock, spc, out_level, crashed>>
       ELSE IF write_fd # 0
       THEN writeMessage(write_fd, write_nonblock)
       ELSE IF write_pipe = 0
       THEN /\ ipc_ret' = [op |-> "sendMessage", ret |-> FALSE, err |-> "open"]
            /\ UNCHANGED <<write_fd, write_nonblock, spc, out_level, crashed>>
       ELSE IF out_reader = write_pipe
       THEN writeMessage(write_pipe, TRUE)
       ELSE /\ spc' = "opening"
            /\ UNCHANGED <<write_fd, write_nonblock, ipc_ret, out_level, crashed>>
    /\ UNCHANGED <<connected, write_pipe, read_pipe, fifos, out_reader,
                   engineButCrashed, ipcVars, appVars,
                   storeVars>>

\* open(write_pipe, O_WRONLY) returns once a reader has opened the FIFO, and
\* sendMessage goes on to its write.
SendOpenReturns ==
    /\ ~crashed
    /\ spc = "opening"
    /\ out_reader = write_pipe
    /\ writeMessage(write_pipe, FALSE)
    /\ UNCHANGED <<connected, write_pipe, read_pipe, fifos, out_reader,
                   engineButCrashed, ipcVars, appVars,
                   storeVars>>

\* A write that waits on a full FIFO goes on when the reader has made room or
\* has gone.
SendWriteReturns ==
    /\ ~crashed
    /\ spc = "writing"
    /\ out_level < PipeCapacity \/ out_reader # write_fd
    /\ writeMessage(write_fd, FALSE)
    /\ UNCHANGED <<connected, write_pipe, read_pipe, fifos, out_reader,
                   engineButCrashed, ipcVars, appVars,
                   storeVars>>

(* ---- the peer on the outbound FIFO ---- *)
\* The peer opens the FIFO at the outbound path for reading.
PeerOpenOut ==
    /\ write_pipe # 0
    /\ out_reader # write_pipe
    /\ out_reader' = write_pipe
    /\ out_level' = 0
    /\ UNCHANGED <<connected, write_fd, write_nonblock, spc, ipc_ret,
                   write_pipe, read_pipe, fifos, engineVars, ipcVars, appVars,
                   storeVars>>

\* The peer closes its read end, or exits.
PeerCloseOut ==
    /\ out_reader # 0
    /\ out_reader' = 0
    /\ out_level' = 0
    /\ UNCHANGED <<connected, write_fd, write_nonblock, spc, ipc_ret,
                   write_pipe, read_pipe, fifos, engineVars, ipcVars, appVars,
                   storeVars>>

\* The peer reads a message.
PeerReadOut ==
    /\ out_reader # 0
    /\ out_level > 0
    /\ out_level' = out_level - 1
    /\ UNCHANGED <<connected, write_fd, write_nonblock, spc, ipc_ret,
                   write_pipe, read_pipe, fifos, out_reader, engineVars,
                   ipcVars, appVars, storeVars>>

SendNext ==
    \/ \E w_ok, r_ok \in BOOLEAN : Initialize(w_ok, r_ok)
    \/ SendMessage
    \/ SendOpenReturns
    \/ SendWriteReturns
    \/ PeerOpenOut
    \/ PeerCloseOut
    \/ PeerReadOut

\* The Transport's outbound side: a caller of initialize and sendMessage, and
\* the peer.
SpecSend == IPCSpecInit /\ [][SendNext]_vars

(* ---- C26 ---- *)
\* C26: when the write inside sendMessage fails, the call returns failure
\* with the descriptor forgotten and nothing more written; and a sendMessage
\* that writes while no descriptor is held has opened the FIFO at the outbound
\* path first.
C26_WriteFailureInvalidates ==
    [][ /\ ( /\ ipc_ret' = [op |-> "sendMessage", ret |-> FALSE, err |-> "write"]
             /\ ipc_ret' # ipc_ret \/ write_fd' # write_fd )
           => /\ write_fd' = 0
              /\ spc' = "idle"
              /\ out_level' = out_level
              /\ ~crashed'
        /\ ( /\ write_fd = 0
             /\ spc = "idle"
             /\ out_level' = out_level + 1 )
           => /\ write_pipe # 0
              /\ write_fd' = write_pipe
              /\ ipc_ret' = [op |-> "sendMessage", ret |-> TRUE, err |-> "none"]
      ]_vars

\* A write has failed on a full FIFO that the peer holds open.
C26_Witness ==
    /\ ipc_ret = [op |-> "sendMessage", ret |-> FALSE, err |-> "write"]
    /\ write_fd = 0
    /\ connected
    /\ out_reader = write_pipe
    /\ out_level = PipeCapacity

(* ================= receiveMessage with its timeout ===================== *)
\* The empty results that receiveMessage has returned.
Timeouts == Cardinality({i \in 1..Len(received) : received[i] = << >>})

\* receiveMessage(timeout) with nothing queued when the wait ends: wait_for
\* returns false and the empty string is returned.
ReceiveTimeout ==
    /\ cpc = "idle"
    /\ message_queue = << >>
    /\ Timeouts < MaxTimeouts
    /\ received' = Append(received, << >>)
    /\ UNCHANGED <<running, read_fd, reader_joinable, message_queue,
                   message_callback, rpc, message, msg, cpc, in_pipe, peer,
                   sent, callback_log>>

ReceiveNext ==
    \/ IPCNext
    \/ ReceiveTimeout /\ UNCHANGED <<engineVars, appVars, sendVars, storeVars>>

\* The Transport with both outcomes of receiveMessage.
SpecReceive == IPCSpecInit /\ [][ReceiveNext]_vars

\* C27: a receiveMessage that finds a message returns the oldest one and
\* removes exactly it; one that finds none returns the empty result, ends
\* nothing and leaves the queue as it was.
C27_ReceiveOldestOrEmpty ==
    [][ received' # received =>
          IF message_queue # << >>
          THEN /\ received' = Append(received, Head(message_queue))
               /\ message_queue' = Tail(message_queue)
               /\ Head(message_queue) # << >>
          ELSE /\ received' = Append(received, << >>)
               /\ message_queue' = message_queue
               /\ crashed' = crashed
      ]_vars

\* A time-out was followed by the return of the older of two queued messages.
C27_Witness ==
    /\ Len(received) >= 2
    /\ received[1] = << >>
    /\ received[2] # << >>
    /\ message_queue # << >>

(* ---- C28 ---- *)
\* initialize has just returned failure.
InitializeFailed == ipc_ret.op = "initialize" /\ ~ipc_ret.ret

\* C28: after an initialize that a rejected stream creation made fail, no
\* FIFO of that call is left at either path, and a sendMessage that follows
\* returns failure, also when an earlier initialize had succeeded.
C28_FailedInitializeDisconnects ==
    /\ [](InitializeFailed => write_pipe = 0 /\ ~read_pipe)
    /\ [][ InitializeFailed /\ ipc_ret'.op = "sendMessage"
             => ~ipc_ret'.ret ]_vars

(* ---- C29 ---- *)
\* C29: a sendMessage of the periodic analysis request that writes while
\* nothing reads the outbound FIFO returns failure to the control loop, and
\* the process goes on.
C29_WriteFailureSurfaced ==
    [][ SendMessage /\ connected /\ write_fd # 0 /\ out_reader # write_fd
          => /\ ~crashed'
             /\ spc' = "idle"
             /\ ipc_ret' = [op |-> "sendMessage", ret |-> FALSE, err |-> "write"]
      ]_vars

(* ---- C30 ---- *)
\* A message that handlePythonMessage takes for a signal, the action key being
\* there, and that lacks the symbol, the confidence and the size.
Malformed(text) == contains(text, SignalTail) /\ ~contains(text, SignalHead)

\* C30: the handling of a malformed inbound message creates no order, leaves
\* the Portfolio as it was and does not end the process.
C30_MalformedMessageInert ==
    [][ /\ rpc = "in_signal"
        /\ rpc' = "split"
        /\ Malformed(Chars(msg))
        /\ Engine = reader_call[1]
        => /\ order_counter' = order_counter
           /\ pending_orders' = pending_orders
           /\ filled_orders' = filled_orders
           /\ positions' = positions
           /\ cash_balance' = cash_balance
           /\ ~crashed'
      ]_vars

(* ================= the Engine with the store behind it ================= *)
StoreOperations ==
    {"insertOrder", "updateOrderStatus", "insertPosition", "updatePosition"}

\* trading_engine->initialize(db_manager), once, on the Engine as constructed.
InitializeEngine ==
    /\ ~crashed
    /\ ~db_manager
    /\ SetEngine(initialize(Engine))
    /\ db_manager' = TRUE
    /\ last' = [op |-> "initialize", ret |-> NoOrder]
    /\ UNCHANGED <<db, db_fails>>

\* placeOrder on the initialized Engine, with what it writes to the store.
StorePlaceOrder(symbol, side, quantity, order_type, price) ==
    /\ db_manager
    /\ PlaceOrder(symbol, side, quantity, order_type, price)
    /\ db' = placeOrder(Engine, symbol, side, quantity, order_type, price).e.db
    /\ UNCHANGED <<db_manager, db_fails>>

\* updatePositionPrices on the initialized Engine, with what it writes.
StoreUpdatePositionPrices(current_prices, ub) ==
    /\ db_manager
    /\ UpdatePositionPrices(current_prices, ub)
    /\ db' = updatePositionPrices(Engine, current_prices, ub).db
    /\ UNCHANGED <<db_manager, db_fails>>

\* sqlite starts or stops rejecting some of the store operations (a locked
\* file, a full disk).
StoreFault(failing) ==
    /\ ~crashed
    /\ db_fails' = failing
    /\ db_fails' # db_fails
    /\ UNCHANGED <<engineVars, db_manager, db>>

StoreSpecInit == EngineSpecInit /\ mode = "PAPER"

StoreFaults == {{}, {"insertOrder"}, {"insertPosition"}, StoreOperations}

\* A BUY that opens a position or adds to one, a SELL that closes one or
\* takes a part of one.
StoreOrders ==
    [symbol : FillSymbols, side : Sides, quantity : {3}, price : {1000}]

StoreNext ==
    \/ InitializeEngine /\ UNCHANGED <<ipcVars, appVars, sendVars>>
    \/ \E o \in StoreOrders :
           StorePlaceOrder(o.symbol, o.side, o.quantity, "MARKET", o.price)
           /\ UNCHANGED <<ipcVars, appVars, sendVars>>
    \/ \E current_prices \in FillPriceMaps :
         \E ub \in [DOMAIN positions \cap DOMAIN current_prices -> UBOutcomes] :
           StoreUpdatePositionPrices(current_prices, ub)
           /\ UNCHANGED <<ipcVars, appVars, sendVars>>
    \/ \E failing \in StoreFaults :
           StoreFault(failing) /\ UNCHANGED <<ipcVars, appVars, sendVars>>

\* The Engine in simulated mode, initialized on an empty store.
SpecStore == StoreSpecInit /\ [][StoreNext]_vars

(* ---- C31 ---- *)
\* What an Engine operation leaves in memory.
InMemory(e) ==
    <<e.order_counter, e.pending_orders, e.filled_orders, e.cash_balance,
      e.positions, e.peak_balance, e.crashed>>

\* The Engine as it is, with the store rejecting the operations in failing.
EngineWithFaults(failing) == [Engine EXCEPT !.db_fails = failing]

\* C31: whichever store operations fail, placeOrder returns the same order
\* identifier and leaves the same order tables, cash, positions and peak
\* equity as when the store accepts everything, and so does
\* updatePositionPrices.
C31_StoreFailureKeepsMemory ==
    db_manager =>
      /\ \A o \in StoreOrders :
           LET good == placeOrder(EngineWithFaults({}), o.symbol, o.side,
                                  o.quantity, "MARKET", o.price)
           IN \A failing \in SUBSET StoreOperations :
                LET bad == placeOrder(EngineWithFaults(failing), o.symbol,
                                      o.side, o.quantity, "MARKET", o.price)
                IN bad.ret = good.ret /\ InMemory(bad.e) = InMemory(good.e)
      /\ \A current_prices \in FillPriceMaps :
           \A ub \in [DOMAIN positions \cap DOMAIN current_prices -> UBOutcomes] :
             LET good == updatePositionPrices(EngineWithFaults({}),
                                              current_prices, ub)
             IN \A failing \in SUBSET StoreOperations :
                  InMemory(updatePositionPrices(EngineWithFaults(failing),
                                                current_prices, ub))
                  = InMemory(good)

\* A BUY was filled and its position opened while the store rejected the
\* insert of the order and of the position.
C31_Witness ==
    /\ db_manager
    /\ "BTC" \in DOMAIN positions
    /\ \E id \in DOMAIN filled_orders : id \notin DOMAIN db.orders
    /\ db.positions = << >>

(* ======================= PythonProcessManager ========================== *)
\* start(): nothing is done while running is set; else fork(), and running is
\* set in the parent when fork has not failed.
forkAnalyzer(process, fork_ok) ==
    IF process # "none" THEN [process |-> process, ret |-> TRUE]
    ELSE IF fork_ok THEN [process |-> "alive", ret |-> TRUE]
    ELSE [process |-> "none", ret |-> FALSE]

PythonStart(fork_ok) ==
    /\ apc = "init"
    /\ python' = forkAnalyzer(python, fork_ok).process
    /\ ipc_ret' = [op |-> "start", ret |-> forkAnalyzer(python, fork_ok).ret,
                   err |-> "none"]
    /\ UNCHANGED <<apc, peer>>

\* isRunning(): false without a process; else waitpid(process_pid, WNOHANG),
\* which returns 0 for a live child, the pid for one that has exited, which it
\* reaps, and -1 for one reaped before.  running is left as it is.
PythonIsRunning ==
    /\ apc = "init"
    /\ python' = IF python = "exited" THEN "reaped" ELSE python
    /\ ipc_ret' = [op |-> "isRunning", ret |-> python = "alive", err |-> "none"]
    /\ UNCHANGED <<apc, peer>>

\* stop() up to waitpid: nothing without a process, else SIGTERM is sent.
PythonStop ==
    /\ apc = "init"
    /\ apc' = IF python = "none" THEN "init" ELSE "waitpid"
    /\ ipc_ret' = [op |-> "stop", ret |-> python = "none", err |-> "none"]
    /\ UNCHANGED <<python, peer>>

\* waitpid(process_pid, &status, 0) returns when the child has exited, or at
\* once with -1 when it was reaped before; process_pid and running are reset.
PythonStopReturns ==
    /\ apc = "waitpid"
    /\ python \in {"exited", "reaped"}
    /\ python' = "none"
    /\ apc' = "init"
    /\ ipc_ret' = [op |-> "stop", ret |-> TRUE, err |-> "none"]
    /\ UNCHANGED peer

\* The analyzer exits, of itself or because it was sent SIGTERM.
PythonExits ==
    /\ python = "alive"
    /\ python' = "exited"
    /\ peer' = "idle"
    /\ UNCHANGED <<apc, ipc_ret>>

\* What the calls of the PythonProcessManager leave alone.
supervisorFrame ==
    <<engineVars, storeVars, running, read_fd, reader_joinable, message_queue,
      message_callback, rpc, message, msg, cpc, in_pipe, sent, callback_log,
      received, app_running, trading_engine, reader_call, control_call,
      connected, write_fd, write_nonblock, spc, write_pipe, read_pipe, fifos,
      out_reader, out_level>>

SupervisorNext ==
    \/ \E fork_ok \in BOOLEAN : PythonStart(fork_ok) /\ UNCHANGED supervisorFrame
    \/ PythonIsRunning /\ UNCHANGED supervisorFrame
    \/ PythonStop /\ UNCHANGED supervisorFrame
    \/ PythonStopReturns /\ UNCHANGED supervisorFrame
    \/ PythonExits /\ UNCHANGED supervisorFrame
    \/ python = "alive" /\ PeerOpen
          /\ UNCHANGED <<engineVars, appVars, sendVars, storeVars>>
    \/ python = "alive" /\ PeerClose
          /\ UNCHANGED <<engineVars, appVars, sendVars, storeVars>>
    \/ Start /\ UNCHANGED <<engineVars, appVars, sendVars, storeVars>>
    \/ ReaderLoopHead /\ UNCHANGED <<engineVars, appVars, sendVars, storeVars>>
    \/ ReaderOpen /\ UNCHANGED <<engineVars, appVars, sendVars, storeVars>>

\* The PythonProcessManager under an owner that calls start, stop and
\* isRunning, the analyzer it forks, and the Transport whose reader thread
\* opens the FIFO the analyzer writes.
SpecSupervisor == EngineSpecInit /\ [][SupervisorNext]_vars

\* The owner's calls go on when they can; the analyzer owes nothing.
SpecSupervisorFair ==
    SpecSupervisor
    /\ WF_vars(PythonStopReturns /\ UNCHANGED supervisorFrame)

(* ---- C32 ---- *)
\* C32: a stop() that has sent the termination signal eventually returns.
C32_StopEventuallyReturns == (apc = "waitpid") ~> (apc = "init")

(* ---- C37 ---- *)
\* The analyzer has died and the owner has not stopped it.
PeerDead == python \in {"exited", "reaped"}

\* C37: once the peer has died on its own, every isRunning() returns false,
\* no step but the owner's start() makes a process, and a start() that
\* returns true has launched a process, for which isRunning() returns true.
C37_DeadPeerRelaunchedByStart ==
    [][ /\ apc = "init" /\ PeerDead
        => /\ PythonIsRunning /\ UNCHANGED supervisorFrame => ~ipc_ret'.ret
           /\ python' = "alive" => \E fork_ok \in BOOLEAN : PythonStart(fork_ok)
           /\ PythonStart(TRUE) /\ UNCHANGED supervisorFrame
                 => python' = "alive"
      ]_vars

(* ---- C33 ---- *)
\* C33: in every reachable state the peak equity is at least the current
\* equity, so that the drawdown of checkRiskLimits is not negative.
C33_PeakAtLeastEquity == peak_balance >= getEquity(Engine)

(* ---- C34 ---- *)
\* The quantity held of each symbol.
Quantities_(held) == [s \in DOMAIN held |-> held[s].quantity]

\* The open positions that an Engine initialized on the store would load.
ReadBack(store) == Quantities_(loadPositions(EmptyMap, getOpenPositions(store)))

\* C34: with no store operation failing, a fill keeps the store written
\* through: if the store read back as the Portfolio before the fill, it reads
\* back as the Portfolio after it.
C34_FillsWrittenThrough ==
    [][ /\ db_manager
        /\ db_fails = {}
        /\ ReadBack(db) = Quantities_(positions)
        /\ filled_orders' # filled_orders
        => ReadBack(db') = Quantities_(positions')
      ]_vars

(* ========== the Engine after initialize has loaded two positions ======= *)
\* TradingEngine::initialize copies the open positions of the database into
\* the Portfolio: here one in each of two symbols, in simulated mode.
TwoHeldPositions ==
    [symbol \in Symbols |->
       [quantity |-> 3, entry_price |-> 1000, current_price |-> 1000,
        unrealized_pnl |-> 0]]

TwoHeldSpecInit ==
    /\ StoreInit
    /\ mode = "PAPER"
    /\ cash_balance = InitialBalance
    /\ positions = TwoHeldPositions
    /\ peak_balance = InitialBalance
    /\ max_position_size = DefaultMaxPositionSize
    /\ max_drawdown = DefaultMaxDrawdown
    /\ order_counter = 0
    /\ pending_orders = EmptyMap
    /\ filled_orders = EmptyMap
    /\ crashed = FALSE
    /\ last = [op |-> "init", ret |-> NoOrder]
    /\ IPCInit
    /\ AppInit
    /\ message_callback

TwoHeldPriceMaps ==
    UNION {[S -> FillMarketPrices] : S \in SUBSET Symbols}

TwoHeldNext ==
    \/ \E current_prices \in TwoHeldPriceMaps :
         \E ub \in [DOMAIN positions \cap DOMAIN current_prices -> UBOutcomes] :
           UpdatePositionPrices(current_prices, ub)
           /\ UNCHANGED <<ipcVars, appVars, sendVars, storeVars>>
    \/ \E symbol \in Symbols, side \in Sides :
           PlaceOrder(symbol, side, 3, "MARKET", 1000)
           /\ UNCHANGED <<ipcVars, appVars, sendVars, storeVars>>

SpecTwoHeld == TwoHeldSpecInit /\ [][TwoHeldNext]_vars

(* ============= claims about price updates of several positions ========= *)
\* The orders that a step has created for symbol.
CreatedFor(symbol) ==
    {id \in (DOMAIN pending_orders' \cup DOMAIN filled_orders')
              \ (DOMAIN pending_orders \cup DOMAIN filled_orders) :
       (IF id \in DOMAIN filled_orders' THEN filled_orders'[id]
        ELSE pending_orders'[id]).symbol = symbol}

\* C35 (as claimed): in one updatePositionPrices call every held position
\* whose symbol is in the price map is repriced and its thresholds evaluated
\* exactly once, even when a triggered SELL has closed another position
\* earlier in the same call: the call returns, a priced position that is
\* still held carries the new price and the unrealized P&L at that price, a
\* position whose thresholds do not trigger gets no order and one whose
\* thresholds trigger gets at most one.
C35_EveryPricedPositionRepriced ==
    [][\A current_prices \in TwoHeldPriceMaps :
         \A ub \in [DOMAIN positions \cap DOMAIN current_prices -> UBOutcomes] :
           UpdatePositionPrices(current_prices, ub) =>
             /\ ~crashed'
             /\ \A symbol \in DOMAIN positions \cap DOMAIN current_prices :
                  LET price == current_prices[symbol]
                      triggered ==
                          \/ stopLossTriggered(positions[symbol], price)
                          \/ takeProfitTriggered(positions[symbol], price)
                  IN /\ symbol \in DOMAIN positions' =>
                          /\ positions'[symbol].current_price = price
                          /\ positions'[symbol].unrealized_pnl =
                                 positions[symbol].quantity
                                 * (price - positions[symbol].entry_price)
                     /\ Cardinality(CreatedFor(symbol))
                          <= (IF triggered THEN 1 ELSE 0)]_vars

(* ================ claims about the delivery of messages ================ *)
\* How often the k-th written message, whole, is among the messages of log.
TimesIn(log, k) ==
    IF Len(sent) < k THEN 0
    ELSE Cardinality({i \in 1..Len(log) : log[i] = Tagged(sent[k], k)})

\* The k-th message was written, complete and non-empty.
Written(k) == IF Len(sent) < k THEN FALSE ELSE sent[k] # << >>

\* The k-th message was enqueued once and, with a callback registered, passed
\* to the callback once.
DeliveredOnce(k) ==
    /\ TimesIn(Enqueued, k) = 1
    /\ message_callback => TimesIn(callback_log, k) = 1

\* The Transport with its reader thread scheduled; the caller owes no call,
\* stop() least of all, and the peer owes nothing.
SpecIPCReaderFair ==
    SpecIPC /\ WF_vars(ReaderStep /\ UNCHANGED <<engineVars, appVars, sendVars, storeVars>>)

\* C36 (as claimed): while the Transport is started, every complete
\* newline-terminated non-empty message the peer writes is eventually enqueued
\* and passed to the callback, and never more than once, whenever the peer
\* opened its writer and however often it closed and reopened it.
C36_EveryMessageDeliveredOnce ==
    \A k \in 1..MaxMessages :
        /\ [](Written(k) => /\ TimesIn(Enqueued, k) <= 1
                            /\ TimesIn(callback_log, k) <= 1)
        /\ [](Written(k) => <>(~running \/ DeliveredOnce(k)))

(* ================== claims about the order of startup ================== *)
\* The message the reader thread is handing to the callback is a signal:
\* handlePythonMessage finds no error key and finds an action key in it.
IsSignalMessage(text) ==
    ~contains(Chars(text), ErrorText) /\ contains(Chars(text), SignalTail)

\* C38 (as claimed): no inbound signal message is dispatched before Engine
\* init has completed: whenever handlePythonMessage takes a signal message
\* from the reader thread, the trading engine exists.
C38_NoSignalBeforeEngineInit ==
    [][(/\ rpc = "callback"
        /\ IsSignalMessage(msg)
        /\ callback_log' = Append(callback_log, msg))
       => trading_engine]_vars

(* ====================== claims about the cash balance ================== *)
\* C39 (as claimed): in simulated mode the cash balance, which starts
\* non-negative, is never negative, whatever orders were placed, BUY orders
\* without an explicit price and BUY orders whose notional equals the cash
\* included.
C39_CashNeverNegative ==
    mode = "PAPER" => cash_balance >= 0

(* ==================== claims about the position limit ================== *)
\* C40 (as claimed): after any sequence of accepted BUY orders the notional
\* held in a symbol, position quantity times entry price, does not exceed the
\* configured maximum position size.
C40_PositionWithinLimit ==
    \A symbol \in DOMAIN positions :
        positions[symbol].quantity * positions[symbol].entry_price
            <= max_position_size

==========================================================================
